---------------------------- MODULE RedirectTables -----------------------------
(***************************************************************************)
(* The redirects of a domain as a host adds them, and what they come to    *)
(* for a parcel and for a path.                                            *)
(***************************************************************************)
EXTENDS Redirects, FiniteSets

CONSTANTS SomePaths,    \* the paths redirects are written with, and looked up
          MaxEntries    \* bound on the entries of the table

ASSUME PathsAssumption == \A path \in SomePaths : path \in Seq(Nat)

VARIABLE table          \* Redirects::_redirects

TableInit == table = NoRedirects

\* ymDm_AddRedirect.
AddRedirect(subject, before, after) ==
    /\ Cardinality(DOMAIN table \cup {<<subject, before>>}) <= MaxEntries
    /\ table' = Add(table, subject, before, after)

TableNext == \E subject, before, after \in SomePaths : AddRedirect(subject, before, after)

TableSpec == TableInit /\ [][TableNext]_table

----------------------------------------------------------------------------
Longest(S) == CHOOSE s \in S : \A t \in S : Len(t) <= Len(s)

SubjectsFor(path, before) ==
    {s \in SomePaths : <<s, before>> \in DOMAIN table /\ IsPrefix(s, path)}

PicksMostSpecificSubject(set, path) ==
    /\ DOMAIN set = {before \in SomePaths : SubjectsFor(path, before) # {}}
    /\ \A before \in DOMAIN set :
            set[before] = table[<<Longest(SubjectsFor(path, before)), before>>]

RewritesLongestPrefixOnce(set, path) ==
    LET matches == {before \in DOMAIN set : IsPrefix(before, path)}
        longest == Longest(matches)
    IN  IF matches = {} THEN Resolve(set, path) = path
        ELSE \E rest \in {SubSeq(path, i, Len(path)) : i \in 1 .. Len(path) + 1} :
                path = longest \o rest /\ Resolve(set, path) = set[longest] \o rest

(***************************************************************************)
(* Among the redirects of a parcel that share their 'before', the one with *)
(* the longest subject is the one selected (yama.h, ymDm_AddRedirect), and *)
(* one whose subject does not start the parcel's path never is; of those   *)
(* selected, the one with the longest 'before' that starts a path rewrites *)
(* it, at the front and once. The walks in the order of the maps, up in    *)
(* Redirects::compute and down in RedirectSet::resolve, give exactly that. *)
(***************************************************************************)
RedirectsPickTheMostSpecific ==
    \A subject \in SomePaths :
        LET set == Compute(table, subject)
        IN  /\ PicksMostSpecificSubject(set, subject)
            /\ \A path \in SomePaths : RewritesLongestPrefixOnce(set, path)

================================================================================
