------------------------------- MODULE MCCrdSync ------------------------------
(* Instances of CrdSync for TLC. *)
EXTENDS CrdSync, TLC

\* A maintainer whose email may change, and two that may share EMAIL_MISSING.
MCOwnEmails == [m \in Maintainers |-> {"a1", "a2"}]
MCMissingEmails == ("m1" :> {"missing"}) @@ ("m2" :> {"b", "missing"})

\* Others rename a company, edit a row's copy, and rewrite references: to
\* what is not there, and to one name twice.
MCForeign ==
  [company |-> {"d"}, staff |-> {1},
   maintainer |-> {[version |-> 1, company |-> "d"]},
   project |-> {[refs |-> [names |-> {"a1", "a2"}, length |-> 2], version |-> 0,
                 parent |-> "q"],
                [refs |-> [names |-> {"a2"}, length |-> 2], version |-> 1,
                 parent |-> None]},
   membership |-> {<<"q", "a2">>}]
MCNoForeign == [kind \in {"company", "staff", "maintainer", "project", "membership"} |-> {}]
===============================================================================
