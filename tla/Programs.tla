------------------------------ MODULE Programs ------------------------------
(***************************************************************************)
(* The sequential programs of the repository: the verification funnel, the *)
(* localization that fix_tests starts with, the making of candidates, and  *)
(* the audit script with its child processes.  They share no state, so     *)
(* that a behaviour follows one of them from its beginning while the       *)
(* others are idle.                                                        *)
(***************************************************************************)
EXTENDS Funnel, Localization, Patcher, Audit

vars == <<funnelVars, localizationVars, patcherVars, auditVars>>

FunnelIdle ==
    stage = "idle" /\ ran = <<>> /\ targeted = NoCounts /\ result = Pending

LocalizationIdle ==
    /\ phase = "idle" /\ suspicious_line_count = 1 /\ plan = NoPlan
    /\ runs = <<>> /\ matrix = <<>> /\ total_failed = 0 /\ total_passed = 0

PatcherIdle ==
    /\ step = "idle" /\ program = <<>> /\ targets = {} /\ limit = 1
    /\ lines = {} /\ visited = {} /\ patches = {} /\ judged = {}
    /\ pruned = {}

AuditIdle ==
    /\ pc = "idle"
    /\ child = [p \in Child |-> "none"]
    /\ handles = {} /\ next = 1 /\ late = FALSE /\ line = "nothing"
    /\ status = [f \in Fixture |-> "absent"] /\ failed = "nowhere"
    /\ hung = FALSE /\ exits = 0

Init ==
    \/ FunnelInit /\ LocalizationIdle /\ PatcherIdle /\ AuditIdle
    \/ FunnelIdle /\ LocalizationInit /\ PatcherIdle /\ AuditIdle
    \/ FunnelIdle /\ LocalizationIdle /\ PatcherInit /\ AuditIdle
    \/ FunnelIdle /\ LocalizationIdle /\ PatcherIdle /\ AuditInit

Next ==
    \/ FunnelNext /\ UNCHANGED <<localizationVars, patcherVars, auditVars>>
    \/ LocalizationNext /\ UNCHANGED <<funnelVars, patcherVars, auditVars>>
    \/ PatcherNext /\ UNCHANGED <<funnelVars, localizationVars, auditVars>>
    \/ AuditNext /\ UNCHANGED <<funnelVars, localizationVars, patcherVars>>

Spec == Init /\ [][Next]_vars /\ AuditFairness
=============================================================================
