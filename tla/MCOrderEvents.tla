--------------------------- MODULE MCOrderEvents ---------------------------
(* Small instances of OrderEvents for TLC. *)
EXTENDS OrderEvents, TLC

CONSTANTS o1, o2, ann, bob, u1, u2, u3, c1, c2, s1

Patch(who, o, s) == [user |-> who, order |-> o, status |-> s]

(* ann bought the first order, bob the second; the second client and the   *)
(* socket are bob's, who asks for the first order too.                     *)
MCCanRead == {<<ann, o1>>, <<bob, o2>>} \cap (Users \X Orders)
MCWatch == c1 :> [user |-> ann, order |-> o1, first |-> {Absent, Other}]
           @@ c2 :> [user |-> bob, order |-> o1, first |-> {Absent}]
MCSocketUser == [s \in Sockets |-> bob]
MCPatches ==
  u1 :> {Patch(ann, o1, "paid"), Patch(ann, o1, "lost")}
  @@ u2 :> {Patch(ann, o1, "shipped"), Patch(bob, o1, "shipped")}
  @@ u3 :> {Patch(ann, o1, "pending"), Patch(bob, o2, "paid")}
=============================================================================
