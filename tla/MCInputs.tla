------------------------------ MODULE MCInputs ------------------------------
(***************************************************************************)
(* Three instances: one at the root of a host, one under a path of the     *)
(* same host, one on another host.  The same group ID exists on each.      *)
(***************************************************************************)
EXTENDS Inputs, TLC

AnyString == STRING

Base(scheme, host, path) == [scheme |-> scheme, host |-> host, path |-> path]
Root  == Base("https", "spliit", <<"api", "trpc">>)
Under == Base("https", "spliit", <<"sub", "api", "trpc">>)
Other == Base("http", "other", <<"api", "trpc">>)
AllInstances == {Root, Under, Other}

OnEach == {[base |-> b, id |-> "g1"] : b \in AllInstances}

Lower == [n \in Name |-> IF n \in {"Anna", " Anna"} THEN "anna"
                         ELSE IF n = "Cy" THEN "cy" ELSE n]
AnnaBob == <<"Anna", "bob">>

Tails == {<<>>, <<"expenses">>, <<"groups", "g2">>}
Pages(b) == {SubSeq(b.path, 1, Len(b.path) - 2) \o <<"groups", "g1">> \o rest : rest \in Tails}
\* Links to pages; with a scheme no instance has; pasted without the scheme;
\* bare IDs; and addresses that name no group.
Pastes ==
    UNION {{[scheme |-> s, host |-> b.host, path |-> p] :
              s \in {"http", "https", "ftp"}, p \in Pages(b)} : b \in AllInstances}
    \cup {[scheme |-> None, host |-> None, path |-> <<b.host>> \o p] :
              b \in AllInstances, p \in Pages(Root)}
    \cup {[scheme |-> None, host |-> None, path |-> <<g>>] : g \in Gid}
    \cup {[scheme |-> "https", host |-> "spliit", path |-> p] :
              p \in {<<>>, <<"groups">>, <<"g1">>}}

Ren(from, to) == [from |-> from, to |-> to]
Renames == {<<>>} \cup [1 .. 1 -> [from : {"anna", "bob"}, to : Name \ Blanks]]
                  \cup {<<Ren("Anna", "bob"), Ren("bob", "Anna")>>,
                        <<Ren("Anna", "bob"), Ren("bob", "cy")>>}
Additions == {<<>>, <<"cy", "Cy">>, <<"cy", "bob">>} \cup [1 .. 1 -> Name \ Blanks]
\* Up to three changes, of any kinds, two of them to names of one person.
UpToThree ==
    {e \in [rename : Renames, remove : {{}, {"Anna"}, {"bob"}, {"bob", "cy"}},
            add : Additions] :
        Len(e.rename) + Cardinality(e.remove) + Len(e.add) \in 1 .. 3}
Parties == {<<"bob">>, <<"anna", "bob">>, <<"cy", "Cy">>}
=============================================================================
