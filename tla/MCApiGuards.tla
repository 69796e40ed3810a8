---------------------------- MODULE MCApiGuards ----------------------------
(* Two processes, one of them a tick ahead; one session and one ip.        *)
EXTENDS ApiGuards, TLC

CONSTANTS r1, r2, r3, r4

Plan(kind, session, user, pod) ==
  [kind |-> kind, session |-> session, user |-> user, pod |-> pod]

(* The first request may open a session; the others use it or do without. *)
MCPlans ==
  r1 :> {Plan("create", None, None, 1), Plan("browse", None, "ann", 2)}
  @@ r2 :> {Plan("me", r1, None, 1), Plan("browse", None, "ann", 1)}
  @@ r3 :> {Plan("end", r1, None, 2), Plan("browse", None, "ann", 2)}
  @@ r4 :> {Plan("me", r1, None, 2), Plan("me", None, None, 1),
            Plan("create", r1, "", 1), Plan("create", r1, None, 1),
            Plan("browse", None, "ann", 1)}

MCOwner == [r \in Requests |-> "ann"]
MCSkew == <<0, 1>>
MCLimit == [create |-> 1, browse |-> 2]
=============================================================================
