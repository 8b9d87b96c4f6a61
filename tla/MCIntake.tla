------------------------------ MODULE MCIntake ------------------------------
EXTENDS Intake, TLC

CONSTANTS s1, s2, w1, w2, e1, e2, k1, k2

FoldedKeys == (k1 :> k1) @@ (k2 :> k1)
ScheduleOwners == [s \in Schedules |-> w1]
Limits == [m \in {"WORKFLOW_START_DAY", "WEBHOOK_ACCEPTED_MINUTE"} |->
             1]
Cron == {0, 1, 3}
Def(type, every, runAt, misfire) ==
  [type |-> type, every |-> every, runAt |-> runAt, misfire |-> misfire]
Defs == {Def("CRON", Never, Never, "FIRE_ONCE"), Def("INTERVAL", 1, Never, "FIRE_ONCE"),
         Def("INTERVAL", 1, Never, "SKIP"),
         Def("ONE_TIME", Never, 1, "SKIP"), Def("ONE_TIME", Never, 2, "SKIP")}

(* Bounds of the model.  Of the schedules: one schedule, with one editor     *)
(* over all definitions and another who changes its input while it is edited *)
(* or processed; or two of each before time passes.                          *)
Plain(row) == row.type = "INTERVAL" /\ row.misfire = "SKIP"
OneSchedule ==
  /\ schedule[s2] = NoSchedule
  /\ editor[e2].pc # "idle" =>
       /\ editor[e2].op = "input" /\ editor[e2].row.type # "INTERVAL"
       /\ editor[e1].pc # "idle" => editor[e1].op = "edit"
TwoSchedules ==
  /\ clock = 0 /\ workflow[w1] = "enabled"
  /\ \A s \in Schedules : Live(s) => Plain(schedule[s])
  /\ \A e \in Editors :
       editor[e].pc # "idle" => editor[e].op \in {"create", "enable"}
         /\ (editor[e].op = "create" => Plain(editor[e].row))
ScheduleBound == OneSchedule \/ TwoSchedules

(* Of the webhooks: a webhook that is managed, or users who start runs beside *)
(* one that is not.                                                          *)
NoUsers ==
  /\ \A u \in Requesters : request[u] = NoRequest
  /\ \A r \in runs : r.key[1] # "user"
Unmanaged == \A t \in Triggers : trigger[t] \in {NoTrigger, LiveTrigger(w1)}
Unrotated == \A t \in Triggers : IsLive(t) => trigger[t].secret = 1
WebhookBound ==
  /\ workflow[w2] = "enabled"
  /\ NoUsers => events = {} \/ Unrotated
  /\ ~NoUsers => Unmanaged /\ clock = 0
===============================================================================
