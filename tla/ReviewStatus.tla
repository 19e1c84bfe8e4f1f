---------------------------- MODULE ReviewStatus ----------------------------
(***************************************************************************)
(* codex_github_review_status.py: is the review of the Codex bot current   *)
(* for the head of a pull request?  The head, the reviews, the inline      *)
(* comments, the issue comments and the reactions to the requests among    *)
(* them are loaded one after the other, while commits are pushed and       *)
(* reviews and comments come in.                                           *)
(***************************************************************************)
EXTENDS Integers, Sequences, FiniteSetsExt

CONSTANTS
    Sha,       \* commits of the pull request
    NoCommit,  \* no sha is given
    MaxPosts,  \* bound of the reviews and comments
    MaxPushes

ASSUME ShaAssumption == Sha # {} /\ NoCommit \notin Sha

VARIABLES
    head,     \* of the pull request
    posts,    \* reviews and comments in the order of their creation
    pushes,   \* so far
    loaded,   \* GhPayloads, as far as loaded, and the next thing to load
    status,   \* of the report
    moved     \* history: the head moved since it was loaded

statusVars == <<head, posts, pushes, loaded, status, moved>>

(* A review has a finding or not, on the commit it reviewed and, while it  *)
(* applies to it, on the head (at).  A request may name a commit.          *)
Post(kind, time, commit) ==
    [kind |-> kind, time |-> time, commit |-> commit, at |-> NoCommit, valid |-> TRUE,
     owned |-> FALSE, acknowledged |-> FALSE]

NothingLoaded ==
    [next |-> "pr", head |-> NoCommit, reviews |-> {}, inline |-> {}, comments |-> {},
     acknowledged |-> {}]

StatusInit ==
    /\ head \in Sha
    /\ posts = <<>> /\ pushes = 0 /\ moved = FALSE
    /\ loaded = NothingLoaded /\ status = "none"

-----------------------------------------------------------------------------
(* GitHub.                                                                 *)
NextTimes == IF posts = <<>> THEN {0} ELSE {posts[Len(posts)].time, posts[Len(posts)].time + 1}

Adds(post) ==
    /\ Len(posts) < MaxPosts
    /\ posts' = Append(posts, post)
    /\ UNCHANGED <<head, pushes, loaded, status, moved>>

(* The bot reviews some commit; its comments appear with the review.       *)
Review ==
    \E t \in NextTimes, c \in Sha, known \in BOOLEAN, finding \in BOOLEAN :
        Adds([Post("review", t, IF known THEN c ELSE NoCommit)
              EXCEPT !.at = IF finding THEN c ELSE NoCommit])

Request ==
    \E t \in NextTimes, c \in Sha \cup {NoCommit}, owned \in BOOLEAN :
        Adds([Post("request", t, c) EXCEPT !.owned = owned])

(* The bot says that it cannot review now.                                 *)
Decline == \E t \in NextTimes : Adds(Post("unavailable", t, NoCommit))

Becomes(i, post) ==
    /\ posts[i] # post
    /\ posts' = [posts EXCEPT ![i] = post]
    /\ UNCHANGED <<head, pushes, loaded, status, moved>>

Dismiss ==
    \E i \in DOMAIN posts :
        posts[i].kind = "review" /\ Becomes(i, [posts[i] EXCEPT !.valid = FALSE])

Acknowledge ==
    \E i \in DOMAIN posts :
        posts[i].kind = "request" /\ Becomes(i, [posts[i] EXCEPT !.acknowledged = TRUE])

(* A comment that still applies is moved to the new head.                  *)
Push ==
    /\ pushes < MaxPushes /\ pushes' = pushes + 1
    /\ head' \in Sha \ {head}
    /\ \E kept \in SUBSET {i \in DOMAIN posts : posts[i].at = head} :
          posts' = [i \in DOMAIN posts |->
                       IF i \in kept THEN [posts[i] EXCEPT !.at = head'] ELSE posts[i]]
    /\ moved' = (loaded.next # "pr")
    /\ UNCHANGED <<loaded, status>>

-----------------------------------------------------------------------------
(* _load_payloads                                                          *)
(* Mutant.  The inline comments are loaded before the reviews.             *)
AfterCommentsFirst(step) ==
    CASE step = "pr" -> "inline" [] step = "inline" -> "reviews"
      [] step = "reviews" -> "comments" [] step = "comments" -> "reactions"
      [] step = "reactions" -> "report"

After(step) ==
    CASE step = "pr" -> "reviews" [] step = "reviews" -> "inline"
      [] step = "inline" -> "comments" [] step = "comments" -> "reactions"
      [] step = "reactions" -> "report"

Loads(step, payloads) ==
    /\ loaded.next = step
    /\ loaded' = [payloads EXCEPT !.next = After(step)]
    /\ UNCHANGED <<head, posts, pushes, status>>

LoadPr == Loads("pr", [loaded EXCEPT !.head = head]) /\ moved' = FALSE

(* _is_submitted_codex_review; a review keeps the words it was read with.  *)
LoadReviews ==
    /\ Loads("reviews", [loaded EXCEPT
          !.reviews = {i \in DOMAIN posts : posts[i].kind = "review" /\ posts[i].valid}])
    /\ UNCHANGED moved

LoadInline ==
    /\ Loads("inline", [loaded EXCEPT
          !.inline = {posts[i].at : i \in {j \in DOMAIN posts : posts[j].kind = "review"}}
                     \ {NoCommit}])
    /\ UNCHANGED moved

LoadComments ==
    /\ Loads("comments", [loaded EXCEPT
          !.comments = {i \in DOMAIN posts : posts[i].kind # "review"}])
    /\ UNCHANGED moved

(* The reactions to any request may fail to load.                          *)
LoadReactions ==
    /\ \E failed \in SUBSET {i \in loaded.comments : posts[i].kind = "request"} :
          Loads("reactions", [loaded EXCEPT
              !.acknowledged = {i \in loaded.comments : posts[i].acknowledged} \ failed])
    /\ UNCHANGED moved

-----------------------------------------------------------------------------
(* _latest_item: by time, then by id.                                      *)
Latest(S) == IF S = {} THEN 0 ELSE Max(S)

(* Maintainers' requests count, and those the bot has reacted to.          *)
ManualRequests ==
    {i \in loaded.comments :
        posts[i].kind = "request" /\ (posts[i].owned \/ i \in loaded.acknowledged)}

(* build_review_status                                                     *)
StatusNow ==
    LET review == Latest(loaded.reviews)
        request == Latest(ManualRequests)
        declined == Latest({i \in loaded.comments :
                        /\ posts[i].kind = "unavailable" /\ request # 0
                        /\ posts[i].time >= posts[request].time})
        current == review # 0 /\ posts[review].commit = loaded.head
        ofHead == request # 0 /\ posts[request].commit = loaded.head
        refused == /\ declined # 0 /\ ofHead
                   /\ review # 0 => posts[declined].time >= posts[review].time
        pending == /\ ofHead
                   /\ review # 0 => posts[request].time > posts[review].time
    IN  CASE current /\ loaded.head \in loaded.inline -> "current_with_findings"
          [] current /\ loaded.head \notin loaded.inline -> "current_without_inline_findings"
          [] ~current /\ refused -> "manual_review_request_failed"
          [] ~current /\ ~refused /\ pending -> "manual_review_requested_pending"
          [] ~current /\ ~refused /\ ~pending ->
                CASE review # 0 /\ posts[review].commit # NoCommit -> "stale_review"
                  [] review # 0 /\ posts[review].commit = NoCommit ->
                        "no_codex_review_for_current_head"
                  [] review = 0 -> "no_codex_review"

Report ==
    /\ loaded.next = "report"
    /\ status' = StatusNow
    /\ loaded' = [loaded EXCEPT !.next = "done"]
    /\ UNCHANGED <<head, posts, pushes, moved>>

(* unavailable_status: gh fails on anything but the reactions.             *)
Fail ==
    /\ loaded.next \in {"pr", "reviews", "inline", "comments"}
    /\ status' = "gh_unavailable"
    /\ loaded' = [loaded EXCEPT !.next = "done"]
    /\ UNCHANGED <<head, posts, pushes, moved>>

StatusNext ==
    \/ Review \/ Request \/ Decline \/ Dismiss \/ Acknowledge \/ Push
    \/ LoadPr \/ LoadReviews \/ LoadInline \/ LoadComments \/ LoadReactions
    \/ Report \/ Fail

StatusSpec == StatusInit /\ [][StatusNext]_statusVars

-----------------------------------------------------------------------------
(* "Nothing to do" is said only of a head the bot's latest review is of,   *)
(* and, unless the head has moved since it was loaded, only if none of the *)
(* reviews the report knows has left a finding on it: no review slips in   *)
(* between the loading of the reviews and that of their comments.          *)
CleanReviewIsClean ==
    status = "current_without_inline_findings" =>
        /\ posts[Latest(loaded.reviews)].commit = loaded.head
        /\ ~moved => \A i \in loaded.reviews : posts[i].at # loaded.head
=============================================================================
