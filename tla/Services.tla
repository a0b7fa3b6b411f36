------------------------------ MODULE Services ------------------------------
(***************************************************************************)
(* The services of TaskR: class taskr::Service (service.hpp), the queue    *)
(* they wait in, the service workers and the task workers that run them    *)
(* (runtime.hpp), composed with the scheduler of module Runtime.           *)
(*                                                                         *)
(* A service belongs to whoever has popped it.  Time is abstracted to      *)
(* whether a service is rested: whether its interval has passed since the  *)
(* end of its last run.                                                    *)
(***************************************************************************)
EXTENDS Runtime

CONSTANTS
  Service,
  ServiceWorker,               \* the workers that run nothing but services
  NoService,                   \* nullptr
  MakeTaskWorkersRunServices,  \* _makeTaskWorkersRunServices
  ServiceCapacity,             \* of the service queue
  Managed        \* the services that the application disables and enables, and
                 \* whose interval it changes

Executor == Worker \cup ServiceWorker

ASSUME ServiceAssumption ==
  /\ NoService \notin Service
  /\ ServiceWorker \cap Worker = {}
  /\ MakeTaskWorkersRunServices \in BOOLEAN
  /\ ServiceCapacity \in Nat \ {0}
  /\ Managed \subseteq Service

VARIABLES
  serviceQueue,  \* _serviceQueue
  known,         \* the services that addService was called for
  enabled,       \* _enabled of each service
  rested,        \* what isActive returns
  point,         \* where each executor is in its handling of services
  service        \* the service it has popped

serviceVars == <<serviceQueue, known, enabled, rested, point, service>>
allVars     == <<vars, serviceVars>>

ServicePoints == {"stopped", "checkTermination", "pop", "tryRun", "running",
                  "putBack", "over"}

ServicesInit ==
  /\ Init
  /\ serviceQueue = <<>>
  /\ known = {}
  /\ enabled = [s \in Service |-> TRUE]
  /\ rested = [s \in Service |-> TRUE]
  /\ point = [e \in Executor |-> IF e \in Worker THEN "pop" ELSE "stopped"]
  /\ service = [e \in Executor |-> NoService]

-----------------------------------------------------------------------------
(* The application.                                                        *)

\* Every service is added once.  The push spins while the queue is full.
AddService(s) ==
  /\ s \notin known
  /\ Len(serviceQueue) < ServiceCapacity
  /\ serviceQueue' = Append(serviceQueue, s)
  /\ known' = known \cup {s}
  /\ UNCHANGED <<vars, enabled, rested, point, service>>

\* enable() and disable(), also while the service is executed.
SetEnabled(s, value) ==
  /\ s \in Managed /\ enabled[s] # value
  /\ enabled' = [enabled EXCEPT ![s] = value]
  /\ UNCHANGED <<vars, serviceQueue, known, rested, point, service>>

\* A longer interval may put a service to rest again.  The application sets it
\* between runs; a shorter one is the interval that passes.
SetInterval(s) ==
  /\ s \in Managed /\ state # "running" /\ rested[s]
  /\ rested' = [rested EXCEPT ![s] = FALSE]
  /\ UNCHANGED <<vars, serviceQueue, known, enabled, point, service>>

IntervalPasses(s) ==
  /\ ~rested[s]
  /\ rested' = [rested EXCEPT ![s] = TRUE]
  /\ UNCHANGED <<vars, serviceQueue, known, enabled, point, service>>

\* run() starts the service workers along with the task workers.
RunAll ==
  /\ Run
  /\ point' = [e \in Executor |->
                 IF e \in ServiceWorker THEN "checkTermination" ELSE point[e]]
  /\ UNCHANGED <<serviceQueue, known, enabled, rested, service>>

\* await() joins both.
JoinTaskWorkersOnly == TRUE
ServiceWorkersStopped == \A e \in ServiceWorker : point[e] = "stopped"
AwaitAll == Await /\ ServiceWorkersStopped /\ UNCHANGED serviceVars

\* The calls that have nothing to do with services.
OtherCall ==
  /\ \/ Initialize \/ RunRejected \/ Finalize \/ ForceTermination
     \/ \E value \in BOOLEAN : SetFinishOnLastTask(value)
     \/ \E t, u \in Task : AddDependency(t, u)
     \/ \E t \in Task : AddTask(t)
  /\ UNCHANGED serviceVars

-----------------------------------------------------------------------------
(* Workers.                                                                *)

\* A task worker looks for a service after the draining of its queues and
\* before it looks for a task, if it is told to run services at all.
AtServices(e) == \/ e \in ServiceWorker
                 \/ /\ e \in Worker /\ pc[e] = "pullOwn"
                    /\ MakeTaskWorkersRunServices

Move(e, from, to) ==
  AtServices(e) /\ point[e] = from /\ point' = [point EXCEPT ![e] = to]

\* Where an executor goes when it is through with the service, or found none.
Through(e) == IF e \in ServiceWorker THEN "checkTermination" ELSE "over"

\* serviceWorkerLoop's test, and the main loop's when the worker terminates.
EndWithServices  == AllFinished /\ serviceQueue = <<>>
ServiceWorkerEnd == AllFinished

CheckServiceTermination(e) ==
  /\ Move(e, "checkTermination", IF ServiceWorkerEnd THEN "stopped" ELSE "pop")
  /\ UNCHANGED <<vars, serviceQueue, known, enabled, rested, service>>

PopService(e) ==
  \/ /\ serviceQueue # <<>>
     /\ Move(e, "pop", "tryRun")
     /\ service' = [service EXCEPT ![e] = Head(serviceQueue)]
     /\ serviceQueue' = Tail(serviceQueue)
     /\ UNCHANGED <<vars, known, enabled, rested>>
  \/ /\ serviceQueue = <<>>
     /\ Move(e, "pop", Through(e))
     /\ UNCHANGED <<vars, serviceQueue, known, enabled, rested, service>>

\* A skipped service that is not put back.
DropSkipped(e) ==
  LET s == service[e]
      runs == enabled[s] /\ rested[s] IN
  /\ Move(e, "tryRun", IF runs THEN "running" ELSE Through(e))
  /\ service' = IF runs THEN service ELSE [service EXCEPT ![e] = NoService]
  /\ UNCHANGED <<vars, serviceQueue, known, enabled, rested>>

\* tryRunService: a service that is disabled or has not rested is skipped.
TryRunService(e) ==
  LET s == service[e] IN
  /\ Move(e, "tryRun", IF enabled[s] /\ rested[s] THEN "running" ELSE "putBack")
  /\ UNCHANGED <<vars, serviceQueue, known, enabled, rested, service>>

\* Service::run has come to the end of the service's function; the interval is
\* counted from here.
RunService(e) ==
  /\ Move(e, "running", "putBack")
  /\ rested' = [rested EXCEPT ![service[e]] = FALSE]
  /\ UNCHANGED <<vars, serviceQueue, known, enabled, service>>

\* The service goes to the end of the queue.
ToTheFront(s) == <<s>> \o serviceQueue
ToTheEnd(s)   == Append(serviceQueue, s)

PutBack(e) ==
  /\ Len(serviceQueue) < ServiceCapacity
  /\ Move(e, "putBack", Through(e))
  /\ serviceQueue' = ToTheEnd(service[e])
  /\ service' = [service EXCEPT ![e] = NoService]
  /\ UNCHANGED <<vars, known, enabled, rested>>

ServiceStep(e) ==
  \/ CheckServiceTermination(e) \/ PopService(e) \/ TryRunService(e)
  \/ RunService(e) \/ PutBack(e)

\* What the task worker does besides, when its service is back in the queue.
ServiceIsOver(w) ==
  pc[w] = "pullOwn" /\ MakeTaskWorkersRunServices => point[w] = "over"

TaskWorkerStep(w) ==
  /\ ServiceIsOver(w) /\ Scheduler(w)
  /\ point' = [point EXCEPT ![w] = "pop"]
  /\ UNCHANGED <<serviceQueue, known, enabled, rested, service>>

TaskBody(w) == Body(w) /\ UNCHANGED serviceVars

ServicesNext ==
  \/ RunAll \/ AwaitAll \/ OtherCall
  \/ \E s \in Service : \/ AddService(s) \/ SetInterval(s) \/ IntervalPasses(s)
                        \/ \E value \in BOOLEAN : SetEnabled(s, value)
  \/ \E e \in Executor : ServiceStep(e)
  \/ \E w \in Worker : TaskWorkerStep(w) \/ TaskBody(w)

ServicesSpec == ServicesInit /\ [][ServicesNext]_allVars

\* As in Runtime; besides, the functions of services end, and time passes.
ServicesFairness ==
  /\ WF_allVars(AwaitAll)
  /\ \A e \in Executor : WF_allVars(ServiceStep(e))
  /\ \A s \in Service : WF_allVars(IntervalPasses(s))
  /\ \A w \in Worker : /\ WF_allVars(TaskWorkerStep(w))
                       /\ WF_allVars((Suspend(w) \/ Finish(w))
                                     /\ UNCHANGED serviceVars)
  /\ \A t \in Task :
       SF_allVars(\E w \in Worker : /\ task[w] = t /\ PollSatisfied(w)
                                    /\ TaskWorkerStep(w))

FairServicesSpec == ServicesSpec /\ ServicesFairness

-----------------------------------------------------------------------------
(* Properties.                                                             *)

\* A service that was added is in one place: once in the queue, or popped by
\* one executor.  Hence no two workers execute it at once ("While a service is
\* executed, no other worker can execute it in parallel", service.hpp:39), and
\* none is lost when a worker terminates or is told to.
OneServicePlace ==
  \A s \in known :
    \/ /\ \A e \in Executor : service[e] # s
       /\ \E i \in DOMAIN serviceQueue :
            \A j \in DOMAIN serviceQueue : serviceQueue[j] = s <=> j = i
    \/ /\ \A i \in DOMAIN serviceQueue : serviceQueue[i] # s
       /\ \E e \in Executor : \A f \in Executor : service[f] = s <=> f = e

\* No service is executed, and all of them are in the queue for the next run,
\* when await() has returned, and until run() is called.
ServicesRest ==
  state # "running" =>
    \A s \in known : \E i \in DOMAIN serviceQueue : serviceQueue[i] = s

\* "Their presence not preclude taskR from finished" (service.hpp:41): every run
\* ends, as long as it is set to end with its last task and no forced termination
\* has dropped a task that others wait for.
EndsInSpiteOfServices ==
  state = "running" ~>
    state # "running" \/ ~finishOnLastTask \/ \E t \in Task : taskState[t] = "drained"

\* No service starves: while a run goes on, each one that stays enabled is
\* executed again and again, however many there are for one worker.
ServicesAreServed ==
  \A s \in Service :
    s \in known /\ state = "running" ~>
      \/ state # "running" \/ ~enabled[s]
      \/ \E e \in Executor : service[e] = s /\ point[e] = "running"

=============================================================================
