------------------------------ MODULE MCClient ------------------------------
(***************************************************************************)
(* Callers and targets for TLC: the targets whose addresses are closest,   *)
(* in pairs, with the clock stopped, and one pair with the clock running.  *)
(***************************************************************************)
EXTENDS PolarisClient, TLC

Two == { "first", "second" }

Target(kind, n, name) == [ kind |-> kind, n |-> n, name |-> name ]

\* Names are repeated on purpose: only kinds and paths tell targets apart.
A  == Lit("a")
B  == Lit("b")
AB == << "a", "b" >>

Pairs ==
    { << Target("catalog", <<>>, A), Target("catalogRole", <<A>>, A) >>,
      << Target("principal", <<>>, A), Target("principalRole", <<>>, A) >>,
      << Target("membership", <<A>>, B), Target("membership", <<B>>, A) >>,
      << Target("roleAssignment", <<A, A>>, B),
         Target("roleAssignment", <<A, B>>, A) >>,
      << Target("grant", <<A, A>>, B), Target("grant", <<A, B>>, A) >>,
      << Target("namespace", <<A>>, A), Target("namespace", <<A>>, AB) >>,
      << Target("table", <<A, A>>, B), Target("view", <<A, A>>, B) >>,
      << Target("policy", <<A, A>>, B), Target("table", <<A, AB>>, B) >> }

Case(p, h) ==
    [ target |-> "first" :> p[1] @@ "second" :> p[2], horizon |-> h ]

ClockStopped == { Case(p, 0) : p \in Pairs }
ClockRuns ==
    { Case(<< Target("membership", <<A>>, A), Target("connection", <<>>, A) >>,
           6) }

AllCases == ClockStopped \cup ClockRuns
AllHorizons == { 0, 6 }
=============================================================================
