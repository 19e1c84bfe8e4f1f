---------------------------- MODULE TrackerSnapshot --------------------------
(***************************************************************************)
(* collect_snapshot of triage.py.  `gh api --paginate` reads the issues    *)
(* and pull requests of the repository page by page, the most recently     *)
(* updated ones first, then the open pull requests in the same way.  A     *)
(* page is cut from the list as it is when the page is asked for, and the  *)
(* tracker is in use all the time: whatever somebody updates jumps to the  *)
(* front of the list and pushes the others towards the end.                *)
(***************************************************************************)
EXTENDS Integers, Sequences, FiniteSets, Selection

CONSTANTS
    Item,      \* numbers of issues and pull requests
    PullItem,  \* those that are pull requests
    Late,      \* those opened only after the collection has begun
    PageSize,
    MaxEdits   \* bound of the changes to the tracker

ASSUME SnapshotAssumption ==
    /\ Item \subseteq Nat /\ IsFiniteSet(Item)
    /\ PullItem \subseteq Item /\ Late \subseteq Item /\ PageSize \in Nat \ {0}

VARIABLES
    listed,     \* what the repository has, the last updated first
    condition,  \* per item: open, closed or merged
    stage,      \* tracker_raw, open_pulls_raw, normalize, snapshot
    page,       \* pages read of the list being read
    tracker,    \* rows of tracker_raw
    openPulls,  \* rows of open_pulls_raw
    touched,    \* what has been changed since the collection began
    edits

snapshotVars == <<listed, condition, stage, page, tracker, openPulls, touched, edits>>

SnapshotStart(order, conditions) ==
    /\ listed = order /\ condition = conditions
    /\ stage = "tracker" /\ page = 0 /\ tracker = <<>> /\ openPulls = <<>>
    /\ touched = {} /\ edits = 0

(* Whatever was updated in whatever order before.                          *)
Orders(S) ==
    {s \in [1 .. Cardinality(S) -> S] : \A n \in S : \E i \in DOMAIN s : s[i] = n}

SnapshotInit ==
    \E early \in [Item \ Late -> {"open", "closed"}], order \in Orders(Item \ Late) :
        SnapshotStart(order, [n \in Item |-> IF n \in Late THEN "open" ELSE early[n]])

-----------------------------------------------------------------------------
OpenPulls == {n \in PullItem : condition[n] = "open"}

(* Mutant.  The oldest update comes first.                                 *)
ListingAscending(name) ==
    LET rows == [i \in 1 .. Len(listed) |-> listed[Len(listed) + 1 - i]]
    IN  IF name = "tracker" THEN rows ELSE Those(rows, OpenPulls)

Listing(name) == IF name = "tracker" THEN listed ELSE Those(listed, OpenPulls)

RowsFrom(list, first, last) ==
    [r \in 1 .. last - first |->
        [number |-> list[first + r], condition |-> condition[list[first + r]]]]

Rows(name, k) ==
    LET list == Listing(name)
        full == (k + 1) * PageSize
    IN  RowsFrom(list, k * PageSize, IF full < Len(list) THEN full ELSE Len(list))

(* One page of api_paginated; GitHub names the next one or does not.       *)
ReadPage ==
    /\ stage \in {"tracker", "open"}
    /\ LET more == Len(Listing(stage)) > (page + 1) * PageSize IN
       /\ page' = IF more THEN page + 1 ELSE 0
       /\ stage' = CASE more -> stage
                     [] ~more /\ stage = "tracker" -> "open"
                     [] ~more /\ stage = "open" -> "done"
    /\ IF stage = "tracker"
       THEN tracker' = tracker \o Rows(stage, page) /\ UNCHANGED openPulls
       ELSE openPulls' = openPulls \o Rows(stage, page) /\ UNCHANGED tracker
    /\ UNCHANGED <<listed, condition, touched, edits>>

(* It leaves its place, or comes new, and those before it move on by one.  *)
ToFront(n) ==
    LET size == Len(listed)
        at   == IF \E i \in 1 .. size : listed[i] = n
                THEN CHOOSE i \in 1 .. size : listed[i] = n ELSE size + 1
    IN  listed' = [k \in 1 .. IF at > size THEN at ELSE size |->
                      IF k = 1 THEN n ELSE IF k > at THEN listed[k] ELSE listed[k - 1]]

(* Somebody comments, edits, closes, reopens or merges; what is merged     *)
(* stays merged.                                                           *)
Touch(n) ==
    /\ \E c \in {"open", "closed", "merged"} :
          /\ c = "merged" => n \in PullItem /\ condition[n] # "closed"
          /\ condition[n] = "merged" => c = "merged"
          /\ condition' = [condition EXCEPT ![n] = c]
    /\ n \in Late => n \in touched \/ condition'[n] = "open"
    /\ ToFront(n)
    /\ touched' = touched \cup {n}

Edit ==
    /\ stage # "done" /\ edits < MaxEdits
    /\ edits' = edits + 1
    /\ \E n \in Item : Touch(n)
    /\ UNCHANGED <<stage, page, tracker, openPulls>>

SnapshotNext == ReadPage \/ Edit

SnapshotSpec == SnapshotInit /\ [][SnapshotNext]_snapshotVars

-----------------------------------------------------------------------------
(* issue_map and pull_map: of several rows with one number the last stays, *)
(* and the list of open pull requests comes after the tracker's.           *)
LastRow(rows, n) ==
    LET of == {r \in 1 .. Len(rows) : rows[r].number = n}
    IN  IF of = {} THEN "missing"
        ELSE rows[CHOOSE r \in of : \A q \in of : q <= r].condition

Seen(n) ==
    IF n \in PullItem THEN LastRow(tracker \o openPulls, n) ELSE LastRow(tracker, n)

(* Whatever others do to the tracker meanwhile, and however the pages      *)
(* shift, a snapshot has everything nobody touched, in the condition it is *)
(* in: only what was updated during the collection can be missed.  And     *)
(* what it shows as merged is merged.                                      *)
UntouchedIsSeen ==
    stage = "done" =>
        /\ \A n \in Item \ (Late \cup touched) : Seen(n) = condition[n]
        /\ \A n \in Item : Seen(n) = "merged" => condition[n] = "merged"
=============================================================================
