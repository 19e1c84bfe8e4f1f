---------------------------- MODULE ReviewPacket ----------------------------
(***************************************************************************)
(* codex_review_packet.py: the packet of local evidence a reviewer is      *)
(* given.  It is put together from one git command after the other, the    *)
(* receipt of codex-quality, modification times and the text of the        *)
(* changes, while files change, are committed and are checked              *)
(* (QualityGate); the packet says whether the receipt can be relied on.    *)
(*                                                                         *)
(* All paths are protected, so that each needs a snippet.  A text that     *)
(* cannot be read, or is taken out because the packet is too large, is     *)
(* replaced by a finding: here a path is bare only if there is no text.    *)
(***************************************************************************)
EXTENDS QualityGate

CONSTANTS
    Semantic,  \* the paths under semantic_scan_roots
    Explicit   \* values of --path, all of them together

ASSUME PacketAssumption == Semantic \subseteq Paths /\ Explicit \subseteq SUBSET Paths

VARIABLES
    branch,   \* paths the commits of the branch change
    detail,   \* what a run, and the receipt, say beyond QualityGate: generated_at
              \* and the semantically checked paths
    builder,  \* a run of codex-review-packet
    packet,   \* codex-review-packet.json
    steady,   \* history: paths changed in every state of the present build
    still     \* history: no file and no receipt changed since the builder of
              \* the packet began

packetVars == <<branch, detail, builder, packet, steady, still>>

-----------------------------------------------------------------------------
Evidence == {"worktree_status", "branch_base_diff", "explicit"}

Detail == [generated : Times, semantic : SUBSET Paths]

(* `fits` is what is known so far of usable_as_evidence.                   *)
Builder == [pc : {"idle", "worktree", "branch", "receipt", "times", "snippets", "write"},
            tree : BOOLEAN, base : BOOLEAN,
            sources : [Paths -> SUBSET Evidence],
            fits : BOOLEAN, generated : Times, bare : SUBSET Paths]

(* `kept` is history: what was steady when the packet was written.         *)
Packet == [kind : {"none", "corrupt", "valid"}, tree : BOOLEAN, base : BOOLEAN,
           usable : BOOLEAN, listed : SUBSET Paths, bare : SUBSET Paths, kept : SUBSET Paths]

PacketTypeOK ==
    /\ branch \in SUBSET Paths
    /\ detail \in [{"run", "receipt"} -> Detail]
    /\ builder \in Builder
    /\ packet \in Packet
    /\ steady \in SUBSET Paths
    /\ still \in BOOLEAN

NoDetail == [generated |-> 0, semantic |-> {}]

NoBuilder == [pc |-> "idle", tree |-> FALSE, base |-> FALSE,
              sources |-> [p \in Paths |-> {}], fits |-> FALSE, generated |-> 0, bare |-> {}]

NoPacket == [kind |-> "none", tree |-> FALSE, base |-> FALSE, usable |-> FALSE,
             listed |-> {}, bare |-> {}, kept |-> {}]

PacketInit ==
    /\ Init
    /\ branch \in SUBSET Paths
    /\ detail = [k \in {"run", "receipt"} |-> NoDetail]
    /\ builder = NoBuilder /\ packet = NoPacket
    /\ steady = {} /\ still = FALSE

Changed == Dirty \cup branch

(* Between two steps of the builder files change and are checked.          *)
Remembers ==
    /\ steady' = steady \cap Changed'
    /\ still' = (still /\ UNCHANGED <<file, receipt>>)
    /\ UNCHANGED <<builder, packet>>

WorktreeMoves ==
    /\ Tick \/ \E p \in Paths : Edit(p) \/ Delete(p)
    /\ UNCHANGED <<branch, detail>> /\ Remembers

(* A change that is committed belongs to the branch, unless it takes back  *)
(* what the branch has changed.                                            *)
CommitToBranch ==
    /\ Commit
    /\ \E undone \in SUBSET (branch \cap Dirty) : branch' = (branch \cup Dirty) \ undone
    /\ Remembers /\ UNCHANGED detail

-----------------------------------------------------------------------------
(* The rest of the receipt.                                                *)

(* What the governance check has read ...                                  *)
ChecksWithDetail ==
    /\ RunChecks
    /\ LET scope == IF quality'.requested = {} THEN Paths ELSE quality'.requested
       IN  detail' = [detail EXCEPT !["run"].semantic = scope \cap Existing \cap Semantic]
    /\ UNCHANGED branch /\ Remembers

(* ... and is still there; generated_at is cut to whole seconds.           *)
BuildWithDetail ==
    /\ BuildReceipt
    /\ \E t \in {now, now - 1} \cap Times :
         detail' = [detail EXCEPT !["run"] = [generated |-> t,
                                              semantic |-> detail["run"].semantic \cap Existing]]
    /\ UNCHANGED branch /\ Remembers

WriteWithDetail ==
    /\ WriteReceipt
    /\ detail' = [detail EXCEPT !["receipt"] = detail["run"]]
    /\ UNCHANGED branch /\ Remembers

DiesWithDetail == QualityDies /\ UNCHANGED <<branch, detail>> /\ Remembers

-----------------------------------------------------------------------------
(* build_codex_review_packet.                                              *)

(* Mutant: the diff of the branch is taken before the worktree is listed.  *)
BranchFirst(pc) ==
    CASE pc = "idle"      -> "branch"
      [] pc = "branch"    -> "worktree"
      [] pc = "worktree"  -> "receipt"
      [] pc = "receipt"   -> "times"
      [] pc = "times"     -> "snippets"
      [] pc = "snippets"  -> "write"

StepAfter(pc) ==
    CASE pc = "idle"      -> "worktree"
      [] pc = "worktree"  -> "branch"
      [] pc = "branch"    -> "receipt"
      [] pc = "receipt"   -> "times"
      [] pc = "times"     -> "snippets"
      [] pc = "snippets"  -> "write"

Listed == {p \in Paths : builder.sources[p] # {}}

Proceeds(pc) == builder.pc = pc /\ UNCHANGED <<vars, branch, detail, packet>>

(* --path.                                                                 *)
BeginPacket ==
    /\ Proceeds("idle")
    /\ \E explicit \in Explicit :
         builder' = [NoBuilder EXCEPT
             !.pc = StepAfter("idle"),
             !.sources = [p \in Paths |-> IF p \in explicit THEN {"explicit"} ELSE {}]]
    /\ steady' = Changed /\ still' = TRUE

Found(source, S) == [p \in Paths |-> builder.sources[p] \cup IF p \in S THEN {source} ELSE {}]

(* git status --porcelain=v1                                               *)
ListWorktree ==
    /\ Proceeds("worktree") /\ UNCHANGED <<steady, still>>
    /\ \E visible \in BOOLEAN :
         builder' = [builder EXCEPT
             !.pc = StepAfter("worktree"), !.tree = visible,
             !.sources = Found("worktree_status", IF visible THEN Dirty ELSE {})]

(* git diff --name-status base...head, by the names, not by what they were *)
(* when _source_refs looked them up; without a merge base it is not run.   *)
ListBranch ==
    /\ Proceeds("branch") /\ UNCHANGED <<steady, still>>
    /\ \E available \in BOOLEAN :
         builder' = [builder EXCEPT
             !.pc = StepAfter("branch"), !.base = available,
             !.sources = Found("branch_base_diff", IF available THEN branch ELSE {})]

(* Mutant: a path that was scanned counts as bound to the receipt.         *)
BoundOrScanned == receipt.bound \cup detail["receipt"].semantic

BoundPaths == receipt.bound

(* _load_quality_receipt: what is in the receipt ...                       *)
ReadReceipt ==
    /\ Proceeds("receipt") /\ UNCHANGED <<steady, still>>
    /\ builder' = [builder EXCEPT
           !.pc = StepAfter("receipt"),
           !.generated = detail["receipt"].generated,
           !.fits = /\ receipt.kind = "valid" /\ receipt.passed
                    /\ Listed \subseteq BoundPaths
                    /\ Listed \cap Semantic \subseteq detail["receipt"].semantic]

(* ... and the files, one stat each, against its generated_at.             *)
CompareStamps ==
    /\ Proceeds("times") /\ UNCHANGED <<steady, still>>
    /\ builder' = [builder EXCEPT
           !.pc = StepAfter("times"),
           !.fits = @ /\ \A p \in Listed : file[p].exists /\ file[p].mtime <= builder.generated]

(* The diffs of a path, or else the file itself: a path the worktree no    *)
(* longer lists, because it was committed, is shown as a file.             *)
HasText(p) ==
    LET from == builder.sources[p] IN
    \/ "branch_base_diff" \in from /\ p \in branch
    \/ "worktree_status" \in from /\ file[p].dirty
    \/ from \cap {"worktree_status", "explicit"} # {} /\ file[p].exists

TakeSnippets ==
    /\ Proceeds("snippets") /\ UNCHANGED <<steady, still>>
    /\ builder' = [builder EXCEPT !.pc = StepAfter("snippets"),
                                  !.bare = {p \in Listed : ~ HasText(p)}]

(* The packet is sealed, made to fit its budget, and validated: one that   *)
(* is too large without any snippet, or has a command in its log that      *)
(* writes, is refused.                                                     *)
WritePacket ==
    /\ builder.pc = "write" /\ UNCHANGED <<vars, branch, detail>>
    /\ builder' = NoBuilder /\ steady' = {}
    /\ \/ /\ packet' = [kind |-> "valid", tree |-> builder.tree, base |-> builder.base,
                          usable |-> builder.fits, listed |-> Listed, bare |-> builder.bare,
                          kept |-> steady]
          /\ UNCHANGED still
       \/ UNCHANGED packet /\ still' = FALSE

(* A git command that takes too long, or the builder is stopped; a write   *)
(* may then have begun.                                                    *)
BuilderDies ==
    /\ builder.pc # "idle" /\ UNCHANGED <<vars, branch, detail>>
    /\ builder' = NoBuilder /\ steady' = {}
    /\ still' = FALSE
    /\ \/ UNCHANGED packet
       \/ builder.pc = "write" /\ packet' = [NoPacket EXCEPT !.kind = "corrupt"]

PacketNext ==
    \/ WorktreeMoves \/ CommitToBranch
    \/ ChecksWithDetail \/ BuildWithDetail \/ WriteWithDetail \/ DiesWithDetail
    \/ BeginPacket \/ ListWorktree \/ ListBranch \/ ReadReceipt \/ CompareStamps
    \/ TakeSnippets \/ WritePacket \/ BuilderDies

PacketSpec == PacketInit /\ [][PacketNext]_<<vars, packetVars>>

-----------------------------------------------------------------------------
(* A path that was changed, in the worktree or on the branch, from the     *)
(* first git command to the end is in the packet: a commit in between      *)
(* moves it from one list to the other, and the lists are made in the      *)
(* order that catches it.  If it was not edited meanwhile it has a text,   *)
(* unless it is a deletion that was committed.  A packet that lacks one of *)
(* the lists says so.                                                      *)
NoChangeSlipsBy ==
    /\ packet.kind = "valid" /\ packet.tree /\ packet.base => packet.kept \subseteq packet.listed
    /\ builder.pc = "write" /\ builder.tree /\ builder.base /\ still =>
         \A p \in steady \cap builder.bare : ~ file[p].exists

(* The builder and the Stop hook read the receipt each in its own way.  As *)
(* long as no file and no receipt has changed since the builder began, a   *)
(* receipt the packet calls usable is one the hook accepts: it has passed, *)
(* it binds every changed file, and is older than none.                    *)
UsableMeansHookAgrees ==
    builder.pc = "idle" /\ still /\ packet.usable /\ packet.tree =>
        /\ receipt.kind = "valid" /\ receipt.passed
        /\ Dirty \subseteq Existing \cap receipt.bound
        /\ \A p \in Dirty : ~ Newer(p)
=============================================================================
