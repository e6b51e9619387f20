----------------------------- MODULE MerkleSpec -----------------------------
(***************************************************************************)
(* What compute_root_hash() promises its caller, without buffers, levels   *)
(* counters or offsets: the data blocks are hashed in file order, every    *)
(* other block of the file's tree exactly once and only after its          *)
(* children, the call succeeds when the whole tree is hashed, and it may   *)
(* fail before that.                                                       *)
(***************************************************************************)
EXTENDS MerkleReference

CONSTANTS Calls

VARIABLES args, hashed, status

svars == <<args, hashed, status>>

Init == args \in Calls /\ hashed = {} /\ status = "running"

\* The step that hashes a block also hands it to a callback, which may fail.
HashBlock ==
  /\ status = "running"
  /\ \E b \in RefTree(args) \ hashed :
       /\ RefChildren(args, b[1], b[2]) \subseteq hashed
       /\ b[1] = -1 => \A k \in 0 .. b[2] - 1 : <<-1, k>> \in hashed
       /\ hashed' = hashed \cup {b}
  /\ status' \in {"running", "failed"}
  /\ UNCHANGED args

Succeed ==
  /\ status = "running"
  /\ hashed = RefTree(args)
  /\ status' = "ok"
  /\ UNCHANGED <<args, hashed>>

Fail ==
  /\ status = "running"
  /\ status' = "failed"
  /\ UNCHANGED <<args, hashed>>

Next == HashBlock \/ Succeed \/ Fail

Safety == Init /\ [][Next]_svars
Spec == Safety /\ WF_svars(Next)
=============================================================================
