--------------------------- MODULE MCRuntimeCore ---------------------------
(***************************************************************************)
(* RuntimeCore with two tasks and a lifecycle stream that is soon full.    *)
(* MCRuntimeCore.cfg is about effects: two operations, every intent, no    *)
(* capability.  MCHost.cfg is about hosts: one operation, and a capability *)
(* whose providers and whose place in the configuration change.            *)
(***************************************************************************)
EXTENDS RuntimeHost

CONSTANTS o1, o2, c1, v1

MCPins  == SUBSET Pin
MCEmpty == [effect |-> NoEffect, requires |-> {}]

Effect(o, x) == [operation |-> o, semantics |-> x]
Needs(x)     == {[capability |-> c1, identity |-> x]}

TwoTasks(cfg1, cfg2, x) ==
  [config |-> [t \in Task |-> IF t = 1 THEN cfg1 ELSE cfg2],
   scope |-> [c \in Capability |-> x]]

(* The first task has a configured effect, the second is plain until the   *)
(* host records an intent for it.                                          *)
EffectSetups ==
  { TwoTasks([effect |-> Effect(o1, x), requires |-> {}], MCEmpty, v1) : x \in Semantics }

(* Or its effect needs a capability, of whichever provider is visible.     *)
PinnedEffect == [effect |-> Effect(o1, "Idempotent"), requires |-> Needs(AnyIdentity)]

HostSetups  == EffectSetups \cup { TwoTasks(PinnedEffect, MCEmpty, v1) }
HostConfigs == { MCEmpty }

MCWorkflows ==
  { [tasks |-> Task, dependencies |-> [t \in Task |-> {}], completed |-> {}] }

MCBatches == { <<Workflow!AddDependency(2, 1)>> }
=============================================================================
