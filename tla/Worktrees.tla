------------------------------ MODULE Worktrees ------------------------------
(***************************************************************************)
(* The worktree of one Agent Run on its runner: created and reused,        *)
(* published, cleaned up, retained and discarded                           *)
(* (runner/repository/worktrees.ts, cleanup.ts, publish.ts, and the        *)
(* worktree registry of runner/process-state.ts).                          *)
(*                                                                         *)
(* One operation at a time holds the repository's lock, which is in        *)
(* memory: a restart ends it between any two of its steps.  Each git       *)
(* command is a step and may fail.  An agent or a person edits and commits *)
(* in the worktree at any time, others push to the remote branch, delete   *)
(* it, or commit on a branch that is not checked out in the worktree.       *)
(*                                                                         *)
(* Commits are numbered as they are made, the base is 0; `history' has the *)
(* ancestors of each, itself included.  Branch 1 is the run's, b + 1 the   *)
(* branch a removal of b recovers to.  An observation is what its digest   *)
(* covers: it has the kind of the uncommitted changes and not their        *)
(* content.  Authorizations are made by the server; the reason why work is *)
(* retained is left out.                                                   *)
(***************************************************************************)
EXTENDS Integers

CONSTANTS
    MaxCommit, MaxEdits, MaxRevision, MaxBranch,
    Claims,             \* authorizations the server issues
    Kinds               \* their kinds

ASSUME WorktreesAssumption ==
    /\ MaxCommit \in Nat /\ MaxEdits \in Nat /\ MaxRevision \in Nat
    /\ MaxBranch \in Nat \ {0}
    /\ Kinds \subseteq {"PUBLISH", "CLEANUP", "RETAINED_PUBLISH", "DISCARD"}

VARIABLES
    rec,                \* the row of local_run_worktrees
    tree,               \* what is at the worktree's path
    ref,                \* the commit of each branch, or Absent
    history,
    remote,             \* the commit of the remote branch, or Absent
    onRemote,           \* commits the remote has had
    claims,             \* the authorizations
    op,                 \* the operation that holds the lock
    made, edits,        \* commits and edits so far
    givenUp,            \* commits an owner's discard gave up
    wiped               \* edits a cleanup deleted

worktreesVars == <<rec, tree, ref, history, remote, onRemote, claims, op, made,
                   edits, givenUp, wiped>>

Absent == -1
Unavailable == -2
Commits == 0..MaxCommit
Branches == 1..MaxBranch
NoTree == [kind |-> "NONE"]
Idle == [at |-> "IDLE"]
Unissued == [kind |-> "NONE", used |-> FALSE]

WorktreesTypeOK ==
    /\ rec.state \in {"NONE", "CREATING", "READY", "RETAINED", "REMOVED", "DISCARDED"}
    /\ rec.branch \in Branches /\ rec.revision \in 0..MaxRevision
    /\ rec.state = "RETAINED" => rec.revision > 0 /\ rec.observed # {}
    /\ tree.kind \in {"NONE", "CLEAN", "TRACKED", "UNTRACKED"}
    /\ tree # NoTree => ref[tree.branch] # Absent
    /\ ref \in [Branches -> Commits \cup {Absent}]
    /\ remote \in onRemote \cup {Absent} /\ onRemote \subseteq 0..made

WorktreesInit ==
    /\ rec = [state |-> "NONE", branch |-> 1, revision |-> 0, observed |-> {},
              pinned |-> FALSE, published |-> Absent]
    /\ tree = NoTree
    /\ ref = [b \in Branches |-> Absent]
    /\ history = [c \in Commits |-> {0}]
    /\ remote = Absent /\ onRemote = {}
    /\ claims = [c \in Claims |-> Unissued]
    /\ op = Idle /\ made = 0 /\ edits = 0 /\ givenUp = {} /\ wiped = {}

-------------------------------------------------------------------------------
\* The agent, the developer and the others.
world == <<rec, claims, op, givenUp, wiped>>

Edit(kind) ==
    /\ tree # NoTree /\ rec.pinned /\ edits < MaxEdits
    /\ edits' = edits + 1
    /\ tree' = [tree EXCEPT !.kind = kind, !.edit = edits + 1]
    /\ UNCHANGED <<world, ref, history, remote, onRemote, made>>

CommitOn(b) ==
    /\ ref[b] # Absent /\ made < MaxCommit
    /\ made' = made + 1
    /\ ref' = [ref EXCEPT ![b] = made + 1]
    /\ history' = [history EXCEPT ![made + 1] = history[ref[b]] \cup {made + 1}]

CommitInWorktree ==
    /\ tree # NoTree /\ rec.pinned /\ CommitOn(tree.branch)
    /\ tree' = [tree EXCEPT !.kind = "CLEAN"]
    /\ UNCHANGED <<world, remote, onRemote, edits>>

CommitElsewhere(b) ==
    /\ tree # NoTree => tree.branch # b
    /\ rec.pinned /\ CommitOn(b)
    /\ UNCHANGED <<world, tree, remote, onRemote, edits>>

FastForward(c) == remote = Absent \/ remote \in history[c]

\* Somebody pushes a branch.
PushElsewhere(b) ==
    /\ ref[b] \notin {Absent, remote} /\ FastForward(ref[b])
    /\ remote' = ref[b] /\ onRemote' = onRemote \cup history[ref[b]]
    /\ UNCHANGED <<world, tree, ref, history, made, edits>>

\* The remote branch is deleted, for instance once it is merged.
DeleteRemote ==
    /\ remote # Absent /\ remote' = Absent
    /\ UNCHANGED <<world, tree, ref, history, onRemote, made, edits>>

\* The server names the head it was told of; for retained work also the
\* observation it was shown.  A cleanup is settled when the run is terminal and
\* has no active attempt.
Issue(c, kind) ==
    /\ claims[c] = Unissued /\ tree # NoTree
    /\ \/ /\ kind \in {"PUBLISH", "CLEANUP"}
          /\ \E settled \in BOOLEAN :
               claims' = [claims EXCEPT ![c] =
                 [kind |-> kind, head |-> ref[tree.branch], settled |-> settled, used |-> FALSE]]
       \/ /\ kind \in {"RETAINED_PUBLISH", "DISCARD"} /\ rec.state = "RETAINED"
          /\ \E o \in rec.observed :
               claims' = [claims EXCEPT ![c] =
                 [kind |-> kind, head |-> o.head, observed |-> o,
                  revision |-> rec.revision, used |-> FALSE]]
    /\ UNCHANGED <<rec, op, givenUp, wiped, tree, ref, history, remote, onRemote, made, edits>>

-------------------------------------------------------------------------------
\* What an operation leaves alone.
outside == <<history, made, edits>>
ends == op' = Idle
goes(at) == op' = [op EXCEPT !.at = at]

\* verifyWorktree: the path is a worktree on the branch of the record.
Verified == tree # NoTree /\ tree.branch = rec.branch

\* observeWorktree: nothing when the worktree is not as recorded; the remote
\* may be out of reach.
Observations ==
    IF ~Verified THEN {}
    ELSE {[head |-> ref[rec.branch], kind |-> tree.kind, remote |-> r] :
            r \in {remote, Unavailable}}

\* headReachableFromRemote
Reachable(o) == o.remote \in Commits /\ o.head \in history[o.remote]

\* Slip: a head that is not on the remote does not matter once the run is over.
MayRemoveLoose(claim, o) ==
    claim.settled /\ o.head = claim.head /\ o.kind = "CLEAN" /\ o.remote # Unavailable

\* mayRemove
MayRemove(claim, o) ==
    claim.settled /\ o.head = claim.head /\ o.kind = "CLEAN" /\ Reachable(o)

\* retain: a new observation of what is kept.
Retained(r, o) ==
    IF r.state \in {"READY", "RETAINED"} /\ r.revision < MaxRevision
    THEN [r EXCEPT !.state = "RETAINED", !.revision = @ + 1, !.observed = {o}]
    ELSE r
Retain(o) == rec' = Retained(rec, o)

-------------------------------------------------------------------------------
\* createOrReuse: a reservation is made or found; retained and removed worktrees
\* are not handed out again.
BeginCreate ==
    /\ op = Idle /\ rec.state \in {"NONE", "CREATING", "READY"}
    /\ IF rec.state = "NONE" THEN rec' = [rec EXCEPT !.state = "CREATING"]
       ELSE UNCHANGED rec
    /\ op' = [at |-> IF rec.state = "READY" THEN "REUSE" ELSE "ADD"]
    /\ UNCHANGED <<outside, tree, ref, remote, onRemote, claims, givenUp, wiped>>

\* The branch is new, or has been made and has nothing on it.
BranchUsable == ref[rec.branch] \in {Absent, 0}

\* git worktree add, unless it was added before a restart.
AddWorktree ==
    /\ op.at = "ADD"
    /\ \/ Verified /\ goes("READY") /\ UNCHANGED <<tree, ref>>
       \/ /\ ~Verified /\ BranchUsable /\ tree = NoTree
          /\ tree' = [kind |-> "CLEAN", branch |-> rec.branch, edit |-> 0]
          /\ ref' = [ref EXCEPT ![rec.branch] = 0]
          /\ goes("READY")
       \/ ~Verified /\ ends /\ UNCHANGED <<tree, ref>>
    /\ UNCHANGED <<outside, rec, remote, onRemote, claims, givenUp, wiped>>

MarkReady ==
    /\ op.at \in {"READY", "REUSE"}
    /\ IF Verified /\ (op.at = "READY" => ref[rec.branch] = 0)
       THEN /\ rec' = [rec EXCEPT !.state = "READY"]
            /\ IF rec.pinned THEN ends ELSE goes("PIN")
       ELSE UNCHANGED rec /\ ends
    /\ UNCHANGED <<outside, tree, ref, remote, onRemote, claims, givenUp, wiped>>

\* The pin may be refused.
Pin ==
    /\ op.at = "PIN" /\ ends
    /\ \/ rec' = [rec EXCEPT !.pinned = TRUE]
       \/ UNCHANGED rec
    /\ UNCHANGED <<outside, tree, ref, remote, onRemote, claims, givenUp, wiped>>

-------------------------------------------------------------------------------
\* publish: the claims fit the record, and the worktree is clean at their head.
BeginPublish(c) ==
    /\ op = Idle /\ ~claims[c].used
    /\ \/ claims[c].kind = "PUBLISH" /\ rec.state = "READY"
       \/ /\ claims[c].kind = "RETAINED_PUBLISH" /\ rec.state = "RETAINED"
          /\ claims[c].revision = rec.revision /\ claims[c].observed \in Observations
    /\ \E o \in Observations :
         /\ claims[c].kind = "RETAINED_PUBLISH" => o = claims[c].observed
         /\ o.head = claims[c].head /\ o.kind = "CLEAN"
         /\ op' = [at |-> "CONSUME", kind |-> "PUBLISH", c |-> c, seen |-> o]
    /\ UNCHANGED <<outside, rec, tree, ref, remote, onRemote, claims, givenUp, wiped>>

\* The server consumes an authorization once; it may also refuse to.
ConsumeAuthorization ==
    /\ op.at = "CONSUME"
    /\ \/ /\ ~claims[op.c].used
          /\ claims' = [claims EXCEPT ![op.c].used = TRUE]
          /\ goes("LOOK") /\ UNCHANGED rec
       \/ /\ ends /\ UNCHANGED claims
          /\ IF op.kind = "CLEANUP" THEN Retain(op.seen) ELSE UNCHANGED rec
    /\ UNCHANGED <<outside, tree, ref, remote, onRemote, givenUp, wiped>>

\* Publishing looks again before it pushes.
LookBeforePush ==
    /\ op.at = "LOOK" /\ op.kind = "PUBLISH"
    /\ \/ op.seen \in Observations /\ goes("PUSH")
       \/ ends
    /\ UNCHANGED <<outside, rec, tree, ref, remote, onRemote, claims, givenUp, wiped>>

\* Slip: the worktree's HEAD is pushed.
PushedHead == IF tree = NoTree THEN op.seen.head ELSE ref[tree.branch]

\* The exact commit is pushed, whatever HEAD is by now.
Pushed == op.seen.head

Push ==
    /\ op.at = "PUSH"
    /\ \/ /\ FastForward(Pushed)
          /\ remote' = Pushed /\ onRemote' = onRemote \cup history[Pushed]
          /\ goes("RECORD")
       \/ ends /\ UNCHANGED <<remote, onRemote>>
    /\ UNCHANGED <<outside, rec, tree, ref, claims, givenUp, wiped>>

\* The remote is asked what it has; then the row has it.
RecordPublished ==
    /\ op.at = "RECORD" /\ ends
    /\ \/ remote = op.seen.head /\ rec' = [rec EXCEPT !.published = op.seen.head]
       \/ UNCHANGED rec
    /\ UNCHANGED <<outside, tree, ref, remote, onRemote, claims, givenUp, wiped>>

-------------------------------------------------------------------------------
\* cleanup: without authority, or when something speaks against it, the work is
\* retained as it is seen.
BeginCleanup(c) ==
    /\ op = Idle /\ claims[c].kind = "CLEANUP"
    /\ \E o \in Observations :
         IF ~claims[c].used /\ MayRemove(claims[c], o)
         THEN /\ op' = [at |-> "AGAIN", kind |-> "CLEANUP", c |-> c, seen |-> o]
              /\ UNCHANGED rec
         ELSE Retain(o) /\ UNCHANGED op
    /\ UNCHANGED <<outside, tree, ref, remote, onRemote, claims, givenUp, wiped>>

\* What is seen before the authorization is consumed and after is what was seen
\* at first, or the work is retained; a look may fail.
LookAgain ==
    /\ op.at = "AGAIN" \/ (op.at = "LOOK" /\ op.kind # "PUBLISH")
    /\ \/ op.seen \in Observations /\ UNCHANGED rec
          /\ goes(IF op.at = "AGAIN" THEN "CONSUME" ELSE "REMOVE")
       \/ \E o \in Observations \ {op.seen} : Retain(o) /\ ends
       \/ /\ ends
          /\ IF op.kind = "CLEANUP" THEN Retain(op.seen) ELSE UNCHANGED rec
    /\ UNCHANGED <<outside, tree, ref, remote, onRemote, claims, givenUp, wiped>>

\* previewDiscard: a new observation, which outdates what was authorized before.
PreviewDiscard ==
    /\ op = Idle /\ rec.state = "RETAINED"
    /\ \E o \in Observations : Retain(o)
    /\ UNCHANGED <<outside, tree, ref, remote, onRemote, claims, op, givenUp, wiped>>

\* The owner was shown the record's last observation.
Shown(claim) == claim.revision = rec.revision

\* discard
BeginDiscard(c) ==
    /\ op = Idle /\ claims[c].kind = "DISCARD" /\ ~claims[c].used
    /\ rec.state = "RETAINED" /\ Shown(claims[c])
    /\ \/ /\ claims[c].observed \in Observations /\ UNCHANGED rec
          /\ op' = [at |-> "CONSUME", kind |-> "DISCARD", c |-> c,
                    seen |-> claims[c].observed]
       \/ \E o \in Observations \ {claims[c].observed} : Retain(o) /\ UNCHANGED op
    /\ UNCHANGED <<outside, tree, ref, remote, onRemote, claims, givenUp, wiped>>

-------------------------------------------------------------------------------
\* Only a discard uses force.
Forced == op.kind = "DISCARD"

\* git worktree remove refuses uncommitted changes unless it is forced.
RemoveTree ==
    /\ op.at = "REMOVE" /\ tree # NoTree
    /\ Forced \/ tree.kind = "CLEAN"
    /\ tree' = NoTree /\ goes("DELETE")
    /\ wiped' = IF op.kind = "CLEANUP" /\ tree.kind # "CLEAN"
                THEN wiped \cup {tree.edit} ELSE wiped
    /\ UNCHANGED <<outside, rec, ref, remote, onRemote, claims, givenUp>>

\* It fails: the work is retained when it is seen to be as it was, and left as
\* recorded when it is not.
RemoveFails ==
    /\ op.at = "REMOVE" /\ ends
    /\ \/ /\ Verified /\ ref[rec.branch] = op.seen.head
          /\ \E o \in Observations : Retain(o)
       \/ UNCHANGED rec
    /\ UNCHANGED <<outside, tree, ref, remote, onRemote, claims, givenUp, wiped>>

\* The branch of the record has not moved.
StillAtHead == ref[rec.branch] = op.seen.head

\* git update-ref -d compares; what a discard deletes is given up.
DeleteBranch ==
    /\ op.at = "DELETE"
    /\ \/ /\ StillAtHead /\ goes("MARK")
          /\ ref' = [ref EXCEPT ![rec.branch] = Absent]
          /\ givenUp' = IF op.kind = "DISCARD" THEN givenUp \cup history[op.seen.head]
                        ELSE givenUp
       \/ goes("RECOVER") /\ UNCHANGED <<ref, givenUp>>
    /\ UNCHANGED <<outside, rec, tree, remote, onRemote, claims, wiped>>

Restores(b) ==
    op' = [at |-> "RESTORE", kind |-> op.kind, c |-> op.c, seen |-> op.seen, branch |-> b]

\* Otherwise the head gets a branch of its own, if the branch has left it.
RecoverBranch ==
    /\ op.at = "RECOVER"
    /\ LET head == op.seen.head
           b == rec.branch + 1 IN
         \/ /\ ref[rec.branch] = head /\ UNCHANGED ref
            /\ Restores(rec.branch)
         \/ /\ ref[rec.branch] # head /\ b \in Branches /\ ref[b] \in {Absent, head}
            /\ ref' = [ref EXCEPT ![b] = head]
            /\ Restores(b)
         \/ ref[rec.branch] # head /\ UNCHANGED ref /\ ends
    /\ UNCHANGED <<outside, rec, tree, remote, onRemote, claims, givenUp, wiped>>

\* The worktree is added again on that branch, and the work retained.
RestoreTree ==
    /\ op.at = "RESTORE"
    /\ \/ /\ tree = NoTree /\ goes("RETAIN")
          /\ tree' = [kind |-> "CLEAN", branch |-> op.branch, edit |-> 0]
       \/ ends /\ UNCHANGED tree
    /\ UNCHANGED <<outside, rec, ref, remote, onRemote, claims, givenUp, wiped>>

\* rebindBranch, and then the retention: two writes.
Rebind ==
    /\ op.at = "RETAIN"
    /\ IF rec.state \in {"READY", "RETAINED"}
       THEN rec' = [rec EXCEPT !.branch = op.branch] /\ goes("REBOUND")
       ELSE UNCHANGED rec /\ ends
    /\ UNCHANGED <<outside, tree, ref, remote, onRemote, claims, givenUp, wiped>>

RetainRestored ==
    /\ op.at = "REBOUND" /\ ends
    /\ (\E o \in Observations : Retain(o)) \/ UNCHANGED rec
    /\ UNCHANGED <<outside, tree, ref, remote, onRemote, claims, givenUp, wiped>>

\* markRemoved, markDiscarded
MarkGone ==
    /\ op.at = "MARK" /\ ends
    /\ rec' = IF op.kind = "DISCARD" /\ rec.state = "RETAINED"
              THEN [rec EXCEPT !.state = "DISCARDED"]
              ELSE IF op.kind = "CLEANUP" /\ rec.state \in {"READY", "RETAINED"}
              THEN [rec EXCEPT !.state = "REMOVED"] ELSE rec
    /\ UNCHANGED <<outside, tree, ref, remote, onRemote, claims, givenUp, wiped>>

\* The daemon stops in the middle.
Restart ==
    /\ op # Idle /\ ends
    /\ UNCHANGED <<outside, rec, tree, ref, remote, onRemote, claims, givenUp, wiped>>

WorktreesNext ==
    \/ \E kind \in {"TRACKED", "UNTRACKED"} : Edit(kind)
    \/ CommitInWorktree \/ DeleteRemote
    \/ \E b \in Branches : CommitElsewhere(b) \/ PushElsewhere(b)
    \/ \E c \in Claims, kind \in Kinds : Issue(c, kind)
    \/ BeginCreate \/ AddWorktree \/ MarkReady \/ Pin
    \/ \E c \in Claims : BeginPublish(c) \/ BeginCleanup(c) \/ BeginDiscard(c)
    \/ ConsumeAuthorization \/ LookBeforePush \/ Push \/ RecordPublished
    \/ LookAgain \/ PreviewDiscard
    \/ RemoveTree \/ RemoveFails \/ DeleteBranch \/ RecoverBranch \/ RestoreTree
    \/ Rebind \/ RetainRestored \/ MarkGone \/ Restart

WorktreesSpec == WorktreesInit /\ [][WorktreesNext]_worktreesVars

-------------------------------------------------------------------------------
\* No commit is ever lost: it is on a branch, or the remote has had it, or an
\* owner has discarded it.  Removals race with commits and are killed half way.
CommitsSurvive ==
    \A c \in 1..made :
        \/ c \in onRemote \cup givenUp
        \/ \E b \in Branches : ref[b] # Absent /\ c \in history[ref[b]]

\* A cleanup, which nobody confirmed, deletes no uncommitted change, not even one
\* made after it has looked for the last time.
EditsSurvive == wiped = {}

\* Work survives, committed or not, and the record of the worktree stands for it.
WorkSurvives == WorktreesTypeOK /\ CommitsSurvive /\ EditsSurvive

\* Publishing gives the remote exactly the commit that was authorized, however the
\* worktree moves on meanwhile.
PushesWhatWasAuthorized ==
    [][Push /\ remote' # remote => remote' = claims[op.c].head]_worktreesVars
===============================================================================
