--------------------------- MODULE MCQualityGate ----------------------------
(* Small instances of the gates around a pull request for TLC: the local   *)
(* quality gate, alone and with the review packet that is made beside it,  *)
(* the status of the bot's review, and the protection of the branches.     *)
(* They share no state: each state looks at one of them.                   *)
EXTENDS ReviewPacket, ReviewStatus, BranchProtection, TLC

CONSTANTS p1, p2, c1, c2

Symmetry == Permutations(Paths) \cup Permutations(Sha)

MCBranches == <<"donkey-kong-sandbox", "main">>

VARIABLE focus   \* the gate looked at

mcVars == <<vars, packetVars, statusVars, protectionVars, focus>>

NoStatus ==
    /\ head = NoCommit /\ posts = <<>> /\ pushes = 0 /\ moved = FALSE
    /\ loaded = NothingLoaded /\ status = "none"

NoProtection ==
    /\ protection = [b \in Branch |-> "null"] /\ snapshot = [b \in Branch |-> "absent"]
    /\ script = NoScript /\ scripts = 0 /\ admin = 0
    /\ replaced = [b \in Branch |-> "nothing"] /\ doubt = [b \in Branch |-> "none"]

(* Beside the packet one run of codex-quality is enough, and one edit less. *)
OnePacket ==
    /\ packet.kind = "none"
    /\ receipt.kind # "none" => quality'.pc = "idle"
    /\ edits' < MaxEdits

NoPackets == PacketInit /\ branch = {}

MCInit ==
    \/ focus = "quality" /\ NoPackets /\ NoStatus /\ NoProtection
    \/ focus = "packet" /\ PacketInit /\ NoStatus /\ NoProtection
    \/ focus = "status" /\ StatusInit /\ NoPackets /\ NoProtection
    \/ focus = "protection" /\ ProtectionInit /\ NoPackets /\ NoStatus

MCNext ==
    \/ /\ focus = "quality" /\ Next
       /\ UNCHANGED <<packetVars, statusVars, protectionVars, focus>>
    \/ /\ focus = "packet" /\ PacketNext /\ OnePacket
       /\ UNCHANGED <<statusVars, protectionVars, focus>>
    \/ /\ focus = "status" /\ StatusNext
       /\ UNCHANGED <<vars, packetVars, protectionVars, focus>>
    \/ /\ focus = "protection" /\ ProtectionNext
       /\ UNCHANGED <<vars, packetVars, statusVars, focus>>

MCSpec == MCInit /\ [][MCNext]_mcVars
=============================================================================
