--------------------------- MODULE WorkTreeProofs ---------------------------
(***************************************************************************)
(* Proofs about WorkTree, for any files, candidates and edits, any filter  *)
(* of the snapshots and any number of incidents.                           *)
(***************************************************************************)
EXTENDS WorkTree, TLAPS

Snapshots == UNION {[S -> Content] : S \in SUBSET File}

TypeOK ==
    /\ head \in Branch
    /\ tip \in [Branch -> Tree \cup {NoCommit}]
    /\ index \in Tree /\ work \in Tree
    /\ pc \in {"idle", "add_all", "first_commit", "checkout", "write", "add",
               "commit", "back"}
    /\ merging \in Cand
    /\ base \in Branch
    /\ phase \in [Cand -> {"new", "read", "seeded"}]
    /\ code \in [Cand -> Content]
    /\ snapshot \in [Cand -> Snapshots]
    /\ merged \subseteq Cand /\ clean \subseteq Cand /\ staged \subseteq File
    /\ disturbed \in BOOLEAN

\* The repair branch is checked out.
OnRepair == pc \in {"write", "add", "commit", "back"}

\* The commands that move a branch do so where apply_patch meant them to,
\* also after merges that raised: the first commit goes to a branch without
\* any, a candidate's to the repair branch.
BranchInv ==
    /\ OnRepair => head = merging
    /\ pc \in {"add_all", "first_commit"} => base = head /\ tip[head] = NoCommit
    /\ pc \in {"checkout", "write", "add", "commit", "back"} =>
          tip[base] # NoCommit

-----------------------------------------------------------------------------
(* What an undisturbed repository looks like                               *)

\* The base branch is checked out but for the time of a patch.
HeadInv ==
    /\ base = Main
    /\ ~OnRepair => head = Main

\* A tree with c's code that is otherwise the base branch, but for what
\* developers have staged.
Repairs(t, c) ==
    /\ t[FileOf[c]] = code[c]
    /\ \A f \in File \ (staged \cup {FileOf[c]}) : t[f] = tip[Main][f]

\* What is staged, and the repair branch under construction.
StagedInv ==
    /\ (tip[Main] # NoCommit /\ pc \in {"idle", "checkout", "write", "add"}) =>
          \A f \in File \ staged : index[f] = tip[Main][f]
    /\ pc \in {"commit", "back"} => Repairs(index, merging)
    /\ pc \in {"write", "add", "commit"} => tip[merging] = tip[Main]
    /\ pc = "back" => Repairs(tip[merging], merging)
    /\ pc \in {"add", "commit", "back"} => work[target] = code[merging]

\* The repair branches that are finished.
MergedInv ==
    /\ \A c \in merged : /\ phase[c] = "seeded"
                         /\ tip[Main] # NoCommit
                         /\ (OnRepair => c # merging) => Repairs(tip[c], c)
    /\ pc # "idle" => phase[merging] = "seeded"

\* What a snapshot takes of a tree.
Taking(t) == [f \in {g \in File : t[g] \in Taken[g]} |-> t[f]]

\* The tasks that were seeded from the committed tree.
CleanInv ==
    \A c \in clean : /\ phase[c] # "new"
                     /\ tip[Main] # NoCommit
                     /\ phase[c] = "seeded" => snapshot[c] = Taking(tip[Main])

QuietInv == ~disturbed => HeadInv /\ StagedInv /\ MergedInv /\ CleanInv

WorkTreeInv == TypeOK /\ BranchInv /\ QuietInv

-----------------------------------------------------------------------------
(* Types, and where branches are moved                                     *)

LEMMA WorkTreeInit == Init => WorkTreeInv
<1>. SUFFICES ASSUME Init PROVE WorkTreeInv
  OBVIOUS
<1>1. /\ Empty \in Tree /\ Empty \in Snapshots
      /\ \A b \in Branch : b = Main \/ b \in Cand
  BY DEF Empty, Tree, Content, Branch, Snapshots
<1>2. TypeOK
  BY <1>1 DEF Init, TypeOK, Branch, Content
<1>3. tip[Main] \in {Empty, NoCommit}
  BY DEF Init, Branch
<1>4. BranchInv /\ HeadInv /\ StagedInv /\ MergedInv /\ CleanInv
  BY <1>3 DEF Init, BranchInv, OnRepair, HeadInv, StagedInv, MergedInv, CleanInv
<1>. QED BY <1>2, <1>4 DEF WorkTreeInv, QuietInv

\* Trees that a command writes.
LEMMA TreeTypes ==
    ASSUME NEW t \in Tree, NEW f \in File, NEW x \in Content
    PROVE  [t EXCEPT ![f] = x] \in Tree
BY DEF Tree

LEMMA PatchedType ==
    ASSUME NEW s \in Content, NEW c \in Cand, NEW x \in Patched(s, c)
    PROVE  x \in Content
BY DEF Patched, Content

LEMMA TypeStep ==
    ASSUME TypeOK, BranchInv, [Next]_vars
    PROVE  TypeOK'
<1>. USE WorkTreeAssumption DEF TypeOK
<1>1. ASSUME NEW e \in Edit, NEW f \in File, SaveEdit(e, f) PROVE TypeOK'
  <2>1. work[f] \cup {e} \in Content
    BY DEF Tree, Content
  <2>2. work' \in Tree
    BY <1>1, <2>1, TreeTypes DEF SaveEdit
  <2>. QED BY <1>1, <2>2 DEF SaveEdit, seedVars
<1>14. ASSUME NEW f \in File, Stage(f) PROVE TypeOK'
  <2>1. work[f] \in Content
    BY DEF Tree
  <2>2. index' \in Tree
    BY <1>14, <2>1, TreeTypes DEF Stage
  <2>. QED BY <1>14, <2>2 DEF Stage, seedVars
<1>15. CASE DevCommit
  BY <1>15 DEF DevCommit
<1>2. ASSUME NEW c \in Cand, ReadSource(c) PROVE TypeOK'
  <2>1. work[FileOf[c]] \in Content
    BY DEF Tree
  <2>. QED BY <1>2, <2>1 DEF ReadSource, gitVars, devVars
<1>3. ASSUME NEW c \in Cand, ReadSnapshot(c) PROVE TypeOK'
  <2>1. PICK x \in Patched(code[c], c) : code' = [code EXCEPT ![c] = x]
    BY <1>3 DEF ReadSnapshot
  <2>2. x \in Content
    BY PatchedType
  <2>3. _snapshot_repo_files \in Snapshots
    <3>1. PICK S \in SUBSET File : S = {g \in File : work[g] \in Taken[g]}
      OBVIOUS
    <3>2. [f \in S |-> work[f]] \in [S -> Content]
      BY DEF Tree
    <3>3. _snapshot_repo_files = [f \in S |-> work[f]]
      BY <3>1 DEF _snapshot_repo_files
    <3>4. [S -> Content] \subseteq Snapshots
      BY DEF Snapshots
    <3>. QED BY <3>2, <3>3, <3>4
  <2>. QED BY <1>3, <2>1, <2>2, <2>3 DEF ReadSnapshot, gitVars, devVars
<1>4. ASSUME NEW c \in Cand, StartMerge(c) PROVE TypeOK'
  BY <1>4 DEF StartMerge, gitVars, seedVars, devVars
<1>5. CASE AddAll
  BY <1>5 DEF AddAll, Command, mergerFrame, seedVars, devVars
<1>6. CASE FirstCommit
  BY <1>6 DEF FirstCommit, Command, mergerFrame, seedVars, devVars
<1>7. CASE CheckoutRepair
  BY <1>7 DEF CheckoutRepair, Command, mergerFrame, seedVars, devVars, Branch
<1>8. CASE WriteTarget
  <2>1. work' \in Tree
    BY <1>8, TreeTypes DEF WriteTarget, target
  <2>. QED BY <1>8, <2>1 DEF WriteTarget, Command, mergerFrame, seedVars, devVars
<1>9. CASE AddTarget
  <2>1. work[target] \in Content /\ target \in File
    BY DEF Tree, target
  <2>2. index' \in Tree
    BY <1>9, <2>1, TreeTypes DEF AddTarget
  <2>. QED BY <1>9, <2>2 DEF AddTarget, Command, mergerFrame, seedVars, devVars
<1>10. CASE Commit
  BY <1>10 DEF Commit, Command, mergerFrame, seedVars, devVars
<1>11. CASE CheckoutBase
  <2>1. tip[base] \in Tree
    BY <1>11 DEF CheckoutBase, Returns, BranchInv
  <2>2. \A t \in Tree : AfterCheckout(t) \in Tree
    BY <2>1 DEF AfterCheckout, Tree
  <2>. QED BY <1>11, <2>2 DEF CheckoutBase, Returns, mergerFrame, seedVars, devVars
<1>12. CASE Raise
  BY <1>12 DEF Raise, gitVars, seedVars, devVars
<1>13. CASE UNCHANGED vars
  BY <1>13 DEF vars, gitVars, seedVars, devVars
<1>. QED BY <1>1, <1>2, <1>3, <1>4, <1>5, <1>6, <1>7, <1>8, <1>9, <1>10, <1>11,
     <1>12, <1>13, <1>14, <1>15
     DEF Next, apply_patch, NothingToCommit, CheckoutRefused, CommandFails

LEMMA BranchStep ==
    ASSUME TypeOK, BranchInv, [Next]_vars
    PROVE  BranchInv'
<1>. USE WorkTreeAssumption DEF TypeOK, BranchInv, OnRepair
<1>1. ASSUME NEW e \in Edit, NEW f \in File, SaveEdit(e, f) PROVE BranchInv'
  BY <1>1 DEF SaveEdit
<1>12. ASSUME NEW f \in File, Stage(f) PROVE BranchInv'
  BY <1>12 DEF Stage
<1>13. CASE DevCommit
  <2>1. index # NoCommit
    OBVIOUS
  <2>. QED BY <1>13, <2>1 DEF DevCommit
<1>2. ASSUME NEW c \in Cand, ReadSource(c) \/ ReadSnapshot(c) PROVE BranchInv'
  BY <1>2 DEF ReadSource, ReadSnapshot, gitVars
<1>3. ASSUME NEW c \in Cand, StartMerge(c) PROVE BranchInv'
  BY <1>3 DEF StartMerge, gitVars
<1>4. CASE AddAll
  BY <1>4 DEF AddAll, Command, mergerFrame
<1>5. CASE FirstCommit
  <2>1. index # NoCommit
    OBVIOUS
  <2>. QED BY <1>5, <2>1 DEF FirstCommit, Command, mergerFrame
<1>6. CASE CheckoutRepair
  BY <1>6 DEF CheckoutRepair, Command, mergerFrame, Branch
<1>7. CASE WriteTarget \/ AddTarget
  BY <1>7 DEF WriteTarget, AddTarget, Command, mergerFrame
<1>8. CASE Commit
  <2>1. index # NoCommit
    OBVIOUS
  <2>. QED BY <1>8, <2>1 DEF Commit, Command, mergerFrame
<1>9. CASE CheckoutBase
  BY <1>9 DEF CheckoutBase, Returns, mergerFrame
<1>10. CASE Raise
  BY <1>10 DEF Raise
<1>11. CASE UNCHANGED vars
  BY <1>11 DEF vars, gitVars
<1>. QED BY <1>1, <1>2, <1>3, <1>4, <1>5, <1>6, <1>7, <1>8, <1>9, <1>10, <1>11,
     <1>12, <1>13
     DEF Next, apply_patch, NothingToCommit, CheckoutRefused, CommandFails

\* No step of a merge moves the base branch once it has a commit.
LEMMA MainStays ==
    ASSUME TypeOK, BranchInv, [Next]_vars, ~DevCommit, tip[Main] # NoCommit
    PROVE  tip'[Main] = tip[Main]
<1>. USE WorkTreeAssumption DEF TypeOK, BranchInv, OnRepair
<1>1. CASE FirstCommit
  BY <1>1 DEF FirstCommit, Command
<1>2. CASE CheckoutRepair
  BY <1>2 DEF CheckoutRepair
<1>3. CASE Commit
  BY <1>3 DEF Commit, Command
<1>4. CASE UNCHANGED tip
  BY <1>4
<1>5. FirstCommit \/ CheckoutRepair \/ Commit \/ UNCHANGED tip
  BY DEF Next, SaveEdit, Stage, ReadSource, ReadSnapshot, StartMerge, apply_patch,
     AddAll, WriteTarget, AddTarget, NothingToCommit, CheckoutBase,
     CheckoutRefused, CommandFails, Raise, gitVars, vars
<1>. QED BY <1>1, <1>2, <1>3, <1>4, <1>5

-----------------------------------------------------------------------------
(* Merges that nothing disturbs                                            *)

\* A checkout of the base branch leaves nothing staged but by developers.
LEMMA BackOnBase ==
    ASSUME TypeOK, BranchInv, HeadInv, StagedInv, pc = "back"
    PROVE  /\ ToReplace \subseteq staged \cup {target}
           /\ \A f \in File \ staged : AfterCheckout(index)[f] = tip[Main][f]
<1>. USE WorkTreeAssumption DEF TypeOK
<1>1. /\ tip[Main] \in Tree /\ target \in File
      /\ head = merging /\ base = Main
      /\ index[target] = tip[head][target]
      /\ \A f \in File \ (staged \cup {target}) :
            index[f] = tip[Main][f] /\ tip[head][f] = tip[Main][f]
  BY DEF BranchInv, HeadInv, StagedInv, OnRepair, Repairs, target, Branch
<1>2. ToReplace \subseteq staged \cup {target}
  BY <1>1 DEF ToReplace
<1>3. ASSUME NEW f \in File \ staged PROVE AfterCheckout(index)[f] = tip[Main][f]
  BY <1>1 DEF AfterCheckout, ToReplace
<1>. QED BY <1>2, <1>3

QuietParts == HeadInv /\ StagedInv /\ MergedInv /\ CleanInv

\* Developers disturb no merge unless they save its file or commit.
LEMMA QuietDevelopers ==
    ASSUME WorkTreeInv, QuietParts, ~disturbed',
           \/ \E e \in Edit, f \in File : SaveEdit(e, f)
           \/ \E f \in File : Stage(f)
           \/ DevCommit
    PROVE  QuietParts'
<1>. USE WorkTreeAssumption DEF WorkTreeInv, QuietParts
<1>1. Main \in Branch /\ \A c \in Cand : c \in Branch /\ c # Main
  BY DEF Branch
<1>2. ASSUME NEW e \in Edit, NEW f \in File, SaveEdit(e, f) PROVE QuietParts'
  <2>1. HeadInv' /\ MergedInv' /\ CleanInv'
    BY <1>2 DEF SaveEdit, HeadInv, MergedInv, CleanInv, OnRepair, seedVars,
       Repairs, Taking
  <2>2. pc \in {"add", "commit", "back"} => work'[target] = work[target]
    BY <1>2 DEF SaveEdit, TypeOK, Tree, target
  <2>3. StagedInv'
    BY <1>2, <2>2 DEF SaveEdit, StagedInv, seedVars, Repairs, target
  <2>. QED BY <2>1, <2>3
<1>3. ASSUME NEW f \in File, Stage(f) PROVE QuietParts'
  <2>1. /\ UNCHANGED <<head, tip, work, pc, merging, base, phase, code, snapshot,
                        clean, merged>>
        /\ staged' = staged \cup {f} /\ index'[f] = work[f]
        /\ \A g \in File \ {f} : index'[g] = index[g]
    BY <1>3 DEF Stage, seedVars, TypeOK, Tree
  <2>2. HeadInv' /\ CleanInv'
    BY <2>1 DEF HeadInv, CleanInv, OnRepair, Taking
  <2>3. \A t, c : Repairs(t, c) => Repairs(t, c)'
    BY <2>1 DEF Repairs
  <2>4. MergedInv'
    BY <2>1, <2>3 DEF MergedInv, OnRepair
  <2>5. pc \in {"commit", "back"} => Repairs(index, merging)'
    BY <2>1 DEF StagedInv, Repairs, target, TypeOK
  <2>6. StagedInv'
    BY <2>1, <2>3, <2>5 DEF StagedInv, target
  <2>. QED BY <2>2, <2>4, <2>6
<1>4. CASE DevCommit
  <2>1. /\ pc = "idle" /\ head = Main /\ tip'[Main] = index
        /\ index # NoCommit
        /\ UNCHANGED <<head, index, pc, base>>
        /\ clean' = {} /\ merged' = {}
    BY <1>4, <1>1 DEF DevCommit, HeadInv, OnRepair, TypeOK
  <2>. QED BY <2>1 DEF HeadInv, StagedInv, MergedInv, CleanInv, OnRepair
<1>. QED BY <1>2, <1>3, <1>4

\* Seeding concerns candidates that are not being merged.
LEMMA QuietSeeding ==
    ASSUME WorkTreeInv, QuietParts, NEW c \in Cand,
           ReadSource(c) \/ ReadSnapshot(c)
    PROVE  QuietParts'
<1>. USE WorkTreeAssumption DEF WorkTreeInv, QuietParts
<1>1. /\ \A x \in Cand \ {c} : /\ code'[x] = code[x] /\ phase'[x] = phase[x]
                               /\ snapshot'[x] = snapshot[x]
      /\ c \notin merged /\ (pc # "idle" => merging # c)
      /\ UNCHANGED <<head, tip, index, work, pc, merging, base, merged, staged>>
  BY DEF ReadSource, ReadSnapshot, MergedInv, TypeOK, gitVars, devVars
<1>2. \A x \in Cand \ {c} : \A t : Repairs(t, x) => Repairs(t, x)'
  BY <1>1 DEF Repairs
<1>3. HeadInv'
  BY <1>1 DEF HeadInv, OnRepair
<1>4. StagedInv'
  BY <1>1, <1>2 DEF StagedInv, target, TypeOK
<1>5. MergedInv'
  BY <1>1, <1>2 DEF MergedInv, OnRepair, TypeOK
<1>6. CASE ReadSource(c)
  <2>1. CleanInv'
    BY <1>6, <1>1 DEF ReadSource, CleanInv, Committed, Taking, TypeOK
  <2>. QED BY <1>3, <1>4, <1>5, <2>1
<1>7. CASE ReadSnapshot(c)
  <2>1. Committed => snapshot'[c] = Taking(tip[Main])
    BY <1>7 DEF ReadSnapshot, _snapshot_repo_files, Committed, Taking, TypeOK
  <2>2. CleanInv'
    BY <1>7, <1>1, <2>1 DEF ReadSnapshot, CleanInv, Taking, TypeOK
  <2>. QED BY <1>3, <1>4, <1>5, <2>2
<1>. QED BY <1>6, <1>7

LEMMA QuietStep ==
    ASSUME WorkTreeInv, [Next]_vars, ~disturbed'
    PROVE  QuietParts'
<1>. USE WorkTreeAssumption DEF WorkTreeInv
<1>0. ~disturbed
  BY DEF Next, SaveEdit, Stage, DevCommit, ReadSource, ReadSnapshot, StartMerge,
     apply_patch, AddAll, FirstCommit, CheckoutRepair, WriteTarget, AddTarget,
     Commit, NothingToCommit, CheckoutBase, CheckoutRefused, CommandFails, Raise,
     Command, Returns, vars
<1>1. /\ TypeOK /\ BranchInv /\ QuietParts
      /\ HeadInv /\ StagedInv /\ MergedInv /\ CleanInv
  BY <1>0 DEF QuietInv, QuietParts
<1>2. Main \in Branch /\ \A c \in Cand : c \in Branch /\ c # Main
  BY DEF Branch
<1>. USE <1>1, <1>2 DEF QuietParts
<1>6. ASSUME NEW c \in Cand, StartMerge(c) PROVE QuietParts'
  BY <1>6 DEF StartMerge, HeadInv, StagedInv, MergedInv, CleanInv, OnRepair,
     Repairs, Taking, gitVars, seedVars, devVars
<1>7. CASE AddAll
  <2>1. tip[Main] = NoCommit
    BY <1>7 DEF AddAll, Command, BranchInv, HeadInv, OnRepair
  <2>. QED BY <1>7, <2>1 DEF AddAll, Command, mergerFrame, HeadInv, StagedInv,
       MergedInv, CleanInv, OnRepair, seedVars
<1>8. CASE FirstCommit
  <2>1. /\ tip[Main] = NoCommit /\ head = Main
        /\ merged = {} /\ clean = {}
        /\ tip'[Main] = index
    BY <1>8 DEF FirstCommit, Command, BranchInv, HeadInv, MergedInv, CleanInv,
       OnRepair, TypeOK
  <2>. QED BY <1>8, <2>1 DEF FirstCommit, Command, mergerFrame, HeadInv,
       StagedInv, MergedInv, CleanInv, OnRepair, seedVars
<1>9. CASE CheckoutRepair
  <2>1. /\ base = Main /\ tip[Main] # NoCommit
        /\ tip'[Main] = tip[Main] /\ tip'[merging] = tip[Main]
        /\ \A c \in Cand \ {merging} : tip'[c] = tip[c]
    BY <1>9 DEF CheckoutRepair, Command, BranchInv, HeadInv, TypeOK
  <2>. QED BY <1>9, <2>1 DEF CheckoutRepair, Command, mergerFrame, HeadInv,
       StagedInv, MergedInv, CleanInv, OnRepair, Repairs, Taking, seedVars,
       devVars, TypeOK
<1>10. CASE WriteTarget
  <2>1. work'[target] = code[merging]
    BY <1>10 DEF WriteTarget, TypeOK, Tree, target
  <2>. QED BY <1>10, <2>1 DEF WriteTarget, Command, mergerFrame, HeadInv,
       StagedInv, MergedInv, CleanInv, OnRepair, Repairs, Taking, seedVars,
       devVars, target
<1>11. CASE AddTarget
  <2>1. /\ index'[target] = code[merging]
        /\ \A f \in File \ (staged \cup {target}) : index'[f] = tip[Main][f]
    BY <1>11 DEF AddTarget, Command, StagedInv, target, BranchInv, HeadInv,
       TypeOK, Tree
  <2>2. Repairs(index, merging)'
    BY <1>11, <2>1 DEF Repairs, AddTarget, Command, mergerFrame, seedVars, devVars,
       target
  <2>. QED BY <1>11, <2>2 DEF AddTarget, Command, mergerFrame, HeadInv,
       StagedInv, MergedInv, CleanInv, OnRepair, Repairs, Taking, seedVars,
       devVars, target
<1>12. CASE Commit
  <2>1. /\ head = merging
        /\ tip'[Main] = tip[Main] /\ tip'[merging] = index
        /\ \A c \in Cand \ {merging} : tip'[c] = tip[c]
    BY <1>12 DEF Commit, Command, BranchInv, OnRepair, TypeOK
  <2>. QED BY <1>12, <2>1 DEF Commit, Command, mergerFrame, HeadInv,
       StagedInv, MergedInv, CleanInv, OnRepair, Repairs, Taking, seedVars,
       devVars, target, TypeOK
<1>13. CASE CheckoutBase
  <2>1. /\ pc = "back" /\ base = Main /\ tip[Main] # NoCommit
        /\ \A f \in File \ staged : AfterCheckout(index)[f] = tip[Main][f]
        /\ Repairs(tip[merging], merging)
    BY <1>13, BackOnBase
    DEF CheckoutBase, Returns, HeadInv, BranchInv, StagedInv
  <2>. QED BY <1>13, <2>1 DEF CheckoutBase, Returns, mergerFrame, HeadInv,
       StagedInv, MergedInv, CleanInv, OnRepair, Repairs, Taking, seedVars, devVars
<1>14. CASE UNCHANGED vars
  BY <1>14 DEF vars, gitVars, seedVars, devVars, HeadInv, StagedInv, MergedInv,
     CleanInv, OnRepair, Repairs, Taking, target
<1>15. ~Raise
  BY DEF Raise
<1>. QED BY <1>6, <1>7, <1>8, <1>9, <1>10, <1>11, <1>12, <1>13, <1>14, <1>15,
     QuietDevelopers, QuietSeeding
     DEF Next, apply_patch, NothingToCommit, CheckoutRefused, CommandFails

LEMMA WorkTreeStep == WorkTreeInv /\ [Next]_vars => WorkTreeInv'
BY TypeStep, BranchStep, QuietStep DEF WorkTreeInv, QuietInv, QuietParts

LEMMA WorkTreeInvariant == Spec => []WorkTreeInv
BY WorkTreeInit, WorkTreeStep, PTL DEF Spec

-----------------------------------------------------------------------------
(* What follows                                                            *)

\* "Auto-merge verified patches" means repair branches: apply_patch of
\* merger.py never moves a base branch that has a commit, whichever commands
\* of this or of earlier merges failed and whatever was checked out then.
THEOREM BaseNeverMoved == Spec => BaseIsNeverMoved
<1>1. WorkTreeInv /\ [Next]_vars
         => [(pc' # pc /\ tip[Main] # NoCommit) => tip'[Main] = tip[Main]]_vars
  BY MainStays DEF WorkTreeInv, DevCommit
<1>. QED BY <1>1, WorkTreeInvariant, PTL DEF Spec, BaseIsNeverMoved

\* A merge that nothing disturbed leaves the base branch checked out with
\* nothing staged but by developers, and on its branch the candidate's file
\* changed and nothing else that developers had not staged.
THEOREM RestingOnBase == Spec => []RestsOnBase
<1>1. WorkTreeInv => RestsOnBase
  BY DEF WorkTreeInv, QuietInv, HeadInv, StagedInv, MergedInv, OnRepair,
     Repairs, RestsOnBase
<1>. QED BY <1>1, WorkTreeInvariant, PTL

\* The tree committed for a candidate whose task was seeded from the committed
\* tree agrees with the tree its tests ran in, although the merger patches the
\* developers' own work tree: in the candidate's file, and in each other file
\* that developers have not staged and that _snapshot_repo_files takes.
THEOREM CommittedWasTested == Spec => []CommittedTreeWasTested
<1>1. ASSUME WorkTreeInv, ~disturbed, pc = "idle", NEW c \in merged \cap clean,
             NEW f \in (File \ staged) \cup {FileOf[c]}
      PROVE  IF f \in DOMAIN TestedTree(c)
             THEN tip[c][f] = TestedTree(c)[f]
             ELSE tip[c][f] \notin Taken[f]
  <2>1. /\ tip[c][FileOf[c]] = code[c]
        /\ f # FileOf[c] => f \in File /\ tip[c][f] = tip[Main][f]
        /\ snapshot[c] = Taking(tip[Main])
    BY <1>1 DEF WorkTreeInv, QuietInv, MergedInv, CleanInv, OnRepair, Repairs
  <2>2. CASE f = FileOf[c]
    BY <2>1, <2>2 DEF TestedTree
  <2>3. CASE f # FileOf[c] /\ tip[Main][f] \in Taken[f]
    <3>1. f \in DOMAIN snapshot[c] /\ snapshot[c][f] = tip[Main][f]
      BY <2>1, <2>3 DEF Taking
    <3>. QED BY <2>1, <2>3, <3>1 DEF TestedTree
  <2>4. CASE f # FileOf[c] /\ tip[Main][f] \notin Taken[f]
    <3>1. f \notin DOMAIN snapshot[c]
      BY <2>1, <2>4 DEF Taking
    <3>. QED BY <2>1, <2>4, <3>1 DEF TestedTree
  <2>. QED BY <2>2, <2>3, <2>4
<1>2. WorkTreeInv => CommittedTreeWasTested
  BY <1>1 DEF CommittedTreeWasTested
<1>. QED BY <1>2, WorkTreeInvariant, PTL

\* No step of apply_patch takes uncommitted work of developers in another file
\* out of the work tree, but the last git checkout what they had staged, and
\* that is on the repair branch then, also after merges that were disturbed.
THEOREM EditsSurvive == Spec => OtherEditsSurvive
<1>1. ASSUME WorkTreeInv, [Next]_vars, pc' # pc,
             NEW f \in File \ {FileOf[merging']}
      PROVE  \/ work'[f] = work[f]
             \/ work[f] = tip'[merging][f] /\ (f \in staged \/ disturbed)
  <2>. USE <1>1 DEF WorkTreeInv
  <2>1. CASE WriteTarget
    BY <2>1 DEF WriteTarget, Command, mergerFrame, target, TypeOK, Tree
  <2>2. CASE CheckoutBase
    <3>1. CASE f \in ToReplace
      <4>1. work[f] = tip'[merging][f]
        BY <2>2, <3>1 DEF CheckoutBase, Returns, Refused, BranchInv, OnRepair
      <4>2. ~disturbed => f \in staged
        BY <2>2, <3>1, BackOnBase
        DEF CheckoutBase, Returns, mergerFrame, target, QuietInv
      <4>. QED BY <4>1, <4>2
    <3>2. CASE f \notin ToReplace
      BY <2>2, <3>2 DEF CheckoutBase, AfterCheckout
    <3>. QED BY <3>1, <3>2
  <2>3. CASE UNCHANGED work
    BY <2>3
  <2>. QED BY <2>1, <2>2, <2>3
       DEF Next, SaveEdit, Stage, DevCommit, ReadSource, ReadSnapshot, StartMerge,
           apply_patch, AddAll, FirstCommit, CheckoutRepair, AddTarget, Commit,
           NothingToCommit, CheckoutRefused, CommandFails, Raise, gitVars, vars
<1>2. WorkTreeInv /\ [Next]_vars
         => [pc' # pc =>
               \A f \in File \ {FileOf[merging']} :
                  \/ work'[f] = work[f]
                  \/ work[f] = tip'[merging][f] /\ (f \in staged \/ disturbed)]_vars
  BY <1>1
<1>. QED BY <1>2, WorkTreeInvariant, PTL DEF Spec, OtherEditsSurvive
=============================================================================
