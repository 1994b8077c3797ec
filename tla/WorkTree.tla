------------------------------ MODULE WorkTree ------------------------------
(***************************************************************************)
(* apply_patch of control_plane/merger.py, one git command at a time, on   *)
(* the repository that developers edit and that fix_tests takes its        *)
(* snapshots from: the merger checks its repair branches out in the        *)
(* developers' own work tree.  Merger.tla has the rest of the merger.      *)
(*                                                                         *)
(* The content of a file is the set of changes made to it since the        *)
(* beginning: edits of developers and patches.  A tree gives each file its *)
(* content; the files are those under version control, and contents that   *)
(* differ only in their line ends are one, as read_text translates them.   *)
(* What a git command does is external; a command that fails changes       *)
(* nothing.                                                                *)
(***************************************************************************)
EXTENDS Naturals, FiniteSets

CONSTANTS File, Cand, Edit,
          FileOf,       \* source_relpath of each candidate
          Taken,        \* per file, the contents with which it is in a snapshot
          Main,         \* the branch that is checked out in the beginning
          NoCommit,     \* a branch that does not exist
          MaxIncidents  \* bound on git commands that fail, merger deaths and
                        \*   commits of developers

VARIABLES head,       \* the branch checked out
          tip,        \* the tree of each branch's last commit
          index,      \* the staged tree
          work,       \* the work tree
          pc,         \* the merger's next command
          merging,    \* the candidate being merged
          base,       \* base_branch of apply_patch
          phase,      \* per candidate, how far its task has been seeded
          code,       \* per candidate, its code (first, the source it is for)
          snapshot,   \* per candidate, the repository its tests ran in
          edited,     \* edits that developers have made
          incidents,  \* commands that failed, deaths, developers' commits
          staged,     \* history: files that developers have staged,
          clean,      \*   candidates seeded from the committed tree, and
          merged,     \*   candidates merged, since developers committed last
          disturbed   \* history: has a merge raised or been interfered with

gitVars  == <<head, tip, index, work>>
seedVars == <<phase, code, snapshot, clean>>
devVars  == <<edited, staged>>
vars == <<gitVars, pc, merging, base, seedVars, devVars, incidents, merged,
          disturbed>>

Branch  == Cand \cup {Main}
Content == SUBSET (Cand \cup Edit)
Tree    == [File -> Content]
Empty   == [f \in File |-> {}]

ASSUME WorkTreeAssumption ==
    /\ FileOf \in [Cand -> File]
    /\ Taken \in [File -> SUBSET Content]
    /\ Main \notin Cand
    /\ NoCommit \notin Tree
    /\ MaxIncidents \in Nat

\* A repository with a commit, or one that has none yet.
Init ==
    /\ head = Main
    /\ \E t \in {Empty, NoCommit} :
          tip = [b \in Branch |-> IF b = Main THEN t ELSE NoCommit]
    /\ index = Empty
    /\ work = Empty
    /\ pc = "idle"
    /\ merging \in Cand
    /\ base = Main
    /\ phase = [c \in Cand |-> "new"]
    /\ code = [c \in Cand |-> {}]
    /\ snapshot = [c \in Cand |-> Empty]
    /\ edited = {}
    /\ incidents = 0
    /\ staged = {}
    /\ clean = {}
    /\ merged = {}
    /\ disturbed = FALSE

-----------------------------------------------------------------------------
(* Developers, who leave the choice of the branch to the merger            *)

\* A developer saves a file.  The merge under way is interfered with when
\* that is the file it has just written.
SaveEdit(e, f) ==
    /\ e \notin edited
    /\ edited' = edited \cup {e}
    /\ work' = [work EXCEPT ![f] = @ \cup {e}]
    /\ disturbed' = (disturbed \/ (/\ pc \in {"add", "commit", "back"}
                                   /\ FileOf[merging] = f))
    /\ UNCHANGED <<head, tip, index, pc, merging, base, seedVars, incidents,
                   staged, merged>>

\* git add of one file, at any time.
Stage(f) ==
    /\ index[f] # work[f]
    /\ index' = [index EXCEPT ![f] = work[f]]
    /\ staged' = staged \cup {f}
    /\ UNCHANGED <<head, tip, work, pc, merging, base, seedVars, edited,
                   incidents, merged, disturbed>>

\* git commit.  It interferes with a merge that is under way.
DevCommit ==
    /\ incidents < MaxIncidents
    /\ tip[head] # NoCommit
    /\ index # tip[head]
    /\ incidents' = incidents + 1
    /\ tip' = [tip EXCEPT ![head] = index]
    /\ staged' = {}
    /\ clean' = {}
    /\ merged' = {}
    /\ disturbed' = (disturbed \/ pc # "idle")
    /\ UNCHANGED <<head, index, work, pc, merging, base, phase, code, snapshot,
                   edited>>

-----------------------------------------------------------------------------
(* fix_tests reads the source first, then the work tree, whatever is       *)
(* checked out.                                                            *)

\* HEAD is at the base branch and nothing is changed or staged.
Committed == head = Main /\ tip[Main] # NoCommit /\ work = tip[Main]

ReadSource(c) ==
    /\ phase[c] = "new"
    /\ phase' = [phase EXCEPT ![c] = "read"]
    /\ code' = [code EXCEPT ![c] = work[FileOf[c]]]
    /\ clean' = IF Committed THEN clean \cup {c} ELSE clean
    /\ UNCHANGED <<gitVars, pc, merging, base, snapshot, devVars, incidents,
                   merged, disturbed>>

\* A swapped operator is a change of its own, or undoes an earlier one.
Patched(source, c) == {source \cup {c}} \cup {source \ {e} : e \in source}

\* The files of the work tree but those in an ignored directory, symbolic
\* links, files above MAX_SNAPSHOT_BYTES and files that are not UTF-8.
_snapshot_repo_files ==
    [f \in {g \in File : work[g] \in Taken[g]} |-> work[f]]

\* The rest of seeding, and a search that ends with an accepted candidate.
ReadSnapshot(c) ==
    /\ phase[c] = "read"
    /\ phase' = [phase EXCEPT ![c] = "seeded"]
    /\ snapshot' = [snapshot EXCEPT ![c] = _snapshot_repo_files]
    /\ \E x \in Patched(code[c], c) : code' = [code EXCEPT ![c] = x]
    /\ clean' = IF Committed THEN clean ELSE clean \ {c}
    /\ UNCHANGED <<gitVars, pc, merging, base, devVars, incidents, merged,
                   disturbed>>

\* An executor that does not put the candidate's code in its place.
TestedSnapshot(c) == snapshot[c]

\* What the executor tests: the snapshot, and the candidate in its file.
TestedTree(c) ==
    [f \in DOMAIN snapshot[c] \cup {FileOf[c]} |->
        IF f = FileOf[c] THEN code[c] ELSE snapshot[c][f]]

-----------------------------------------------------------------------------
(* apply_patch                                                             *)

target == FileOf[merging]

mergerFrame == <<merging, base, seedVars, devVars, incidents>>

Command(at, next) ==
    /\ pc = at
    /\ pc' = next
    /\ UNCHANGED <<mergerFrame, merged, disturbed>>

\* An exception ends apply_patch where it is.
Raise ==
    /\ pc' = "idle"
    /\ disturbed' = TRUE
    /\ UNCHANGED <<gitVars, merging, base, seedVars, devVars, merged>>

\* _ensure_repo up to HEAD's branch, which becomes the base branch.
StartMerge(c) ==
    /\ pc = "idle"
    /\ phase[c] = "seeded"
    /\ merging' = c
    /\ base' = head
    /\ pc' = IF tip[head] = NoCommit THEN "add_all" ELSE "checkout"
    /\ UNCHANGED <<gitVars, seedVars, devVars, incidents, merged, disturbed>>

\* git add . and the initial commit, in a new repository.
AddAll ==
    /\ Command("add_all", "first_commit")
    /\ index' = work
    /\ UNCHANGED <<head, tip, work>>

FirstCommit ==
    /\ Command("first_commit", "checkout")
    /\ tip' = [tip EXCEPT ![head] = index]
    /\ UNCHANGED <<head, index, work>>

\* A checkout whose failure goes unnoticed.
StayOnBase ==
    /\ Command("checkout", "write")
    /\ UNCHANGED gitVars

\* git checkout -B branch base: base is checked out, so that nothing in index
\* and work tree changes, and what is staged or edited is carried along.
CheckoutRepair ==
    /\ Command("checkout", "write")
    /\ tip' = [tip EXCEPT ![merging] = tip[base]]
    /\ head' = merging
    /\ UNCHANGED <<index, work>>

WriteTarget ==
    /\ Command("write", "add")
    /\ work' = [work EXCEPT ![target] = code[merging]]
    /\ UNCHANGED <<head, tip, index>>

AddTarget ==
    /\ Command("add", "commit")
    /\ index' = [index EXCEPT ![target] = work[target]]
    /\ UNCHANGED <<head, tip, work>>

\* git commit without a path: all that is staged, by whomever.
Commit ==
    /\ index # tip[head]
    /\ Command("commit", "back")
    /\ tip' = [tip EXCEPT ![head] = index]
    /\ UNCHANGED <<head, index, work>>

\* git commit exits with 1: the patch restores what is committed already.
NothingToCommit ==
    /\ pc = "commit"
    /\ index = tip[head]
    /\ Raise
    /\ UNCHANGED incidents

\* The files that a checkout of the base branch has to replace: those in
\* which it differs from HEAD, unless its content is staged already.
ToReplace ==
    {f \in File : tip[head][f] # tip[base][f] /\ index[f] # tip[base][f]}

\* One of them was edited or staged since the commit.
Refused ==
    \E f \in ToReplace : index[f] # tip[head][f] \/ work[f] # index[f]

AfterCheckout(tree) ==
    [f \in File |-> IF f \in ToReplace THEN tip[base][f] ELSE tree[f]]

Returns ==
    /\ pc = "back"
    /\ pc' = "idle"
    /\ merged' = merged \cup {merging}
    /\ UNCHANGED <<mergerFrame, disturbed>>

\* apply_patch without its last command.
StayOnRepair ==
    /\ Returns
    /\ UNCHANGED gitVars

\* git checkout --force base.
ForceCheckout ==
    /\ Returns
    /\ head' = base
    /\ index' = tip[base]
    /\ work' = tip[base]
    /\ UNCHANGED tip

\* git checkout base, which refuses to overwrite uncommitted work.
CheckoutBase ==
    /\ Returns
    /\ ~Refused
    /\ head' = base
    /\ index' = AfterCheckout(index)
    /\ work' = AfterCheckout(work)
    /\ UNCHANGED tip

CheckoutRefused ==
    /\ pc = "back"
    /\ Refused
    /\ Raise
    /\ UNCHANGED incidents

\* Any command fails, the path check raises, or the merger dies.
CommandFails ==
    /\ pc # "idle"
    /\ incidents < MaxIncidents
    /\ incidents' = incidents + 1
    /\ Raise

apply_patch ==
    \/ AddAll \/ FirstCommit \/ CheckoutRepair \/ WriteTarget \/ AddTarget
    \/ Commit \/ NothingToCommit \/ CheckoutBase \/ CheckoutRefused

Next ==
    \/ \E e \in Edit, f \in File : SaveEdit(e, f)
    \/ \E f \in File : Stage(f)
    \/ DevCommit
    \/ \E c \in Cand : ReadSource(c) \/ ReadSnapshot(c) \/ StartMerge(c)
    \/ apply_patch
    \/ CommandFails

Spec == Init /\ [][Next]_vars

-----------------------------------------------------------------------------
\* "Auto-merge verified patches" (README.md) means repair branches: once the
\* base branch has a commit, no step of a merge moves it, whichever commands
\* of this or of earlier merges failed and whatever was checked out then.
BaseIsNeverMoved ==
    [][(pc' # pc /\ tip[Main] # NoCommit) => tip'[Main] = tip[Main]]_vars

\* As long as no merge has raised and no developer saved the very file that
\* was being patched or committed during a merge, the merger leaves the
\* repository as it found it: at rest the base branch is checked out, nothing
\* is staged but by developers, and each repair branch is the base branch
\* with one candidate's file replaced, and what developers had staged.
RestsOnBase ==
    (~disturbed /\ pc = "idle") =>
        /\ head = Main
        /\ tip[Main] # NoCommit =>
              \A f \in File \ staged : index[f] = tip[Main][f]
        /\ \A c \in merged :
              /\ tip[c][FileOf[c]] = code[c]
              /\ \A f \in File \ (staged \cup {FileOf[c]}) :
                    tip[c][f] = tip[Main][f]

\* What is committed is what was tested, of the files that a snapshot takes:
\* for a task seeded while the base branch was checked out without changes,
\* the commit on the repair branch agrees with the tree that the executor ran
\* the tests in, also when developers edit other files before and during the
\* merge.  In the candidate's own file it always does; elsewhere but for the
\* files that developers staged, which the commit takes along untested, and
\* a file that the tests ran without is one whose committed content
\* _snapshot_repo_files leaves out.  (At rest: a repeated merge of a
\* candidate first resets its branch.)
CommittedTreeWasTested ==
    (~disturbed /\ pc = "idle") =>
        \A c \in merged \cap clean :
           \A f \in (File \ staged) \cup {FileOf[c]} :
              IF f \in DOMAIN TestedTree(c)
              THEN tip[c][f] = TestedTree(c)[f]
              ELSE tip[c][f] \notin Taken[f]

\* Merging loses no uncommitted work of developers in other files than the
\* patched one, whatever failed or interfered before: a step of a merge
\* changes such a file in the work tree only if its content is in the commit
\* just made on the repair branch (git commit takes all that is staged, and
\* the checkout of the base branch takes it away again), and, unless a merge
\* was disturbed, only if developers had staged it.
OtherEditsSurvive ==
    [][pc' # pc =>
          \A f \in File \ {FileOf[merging']} :
             \/ work'[f] = work[f]
             \/ work[f] = tip'[merging][f] /\ (f \in staged \/ disturbed)]_vars
=============================================================================
