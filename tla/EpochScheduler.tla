---------------------------- MODULE EpochScheduler ----------------------------
(***************************************************************************)
(* The scheduler's epochs (OracleScheduler in global_scheduler.cpp): how   *)
(* the measured rate of every model becomes a target, how the targets that *)
(* changed become a new schedule, incrementally or from nothing, how one   *)
(* that cannot be found is given up, and how one that was found is         *)
(* installed an epoch later.  The monitor thread (monitor_thread.cpp,      *)
(* EWMA.cpp) changes the rates between any two steps.                      *)
(*                                                                         *)
(* A schedule is what its reader here needs: the number of its GPUs, and   *)
(* the rate every model is given.  The search for it is                    *)
(* ElasticPartitioning's: here it succeeds from nothing exactly when the   *)
(* rates fit the GPUs, and may fail, when it starts from an old schedule,  *)
(* even then.  The loading of the models a schedule adds and the unloading *)
(* of those it drops are GpuProxy's.                                       *)
(*                                                                         *)
(* Rates are in tenths of a request a second, as the targets are not whole *)
(* while the rates of a schedule's tasks are (Task::request_rate).         *)
(***************************************************************************)
EXTENDS Integers, Sequences, FiniteSetsExt, Functions

CONSTANTS
    Models,         \* the names in getVectorOfNetNames
    Counts,         \* the requests the monitor may count in an interval
    InitRates,      \* the rate files: functions from Models, 0 where absent
    ConfigGPUs,     \* the numbers of GPUs, over all types, the configuration may give
    NGPUs,          \* the GPUs of the backends, getNGPUs()
    Capacity,       \* the rate one GPU can serve
    RateInterval,   \* RATE_INTERVAL, in ms
    BeaconInterval, \* BEACON_INTERVAL, in ms
    HistLen         \* the whole part of HIST_LEN

ASSUME EpochAssumption ==
    /\ Counts \subseteq Nat
    /\ InitRates \subseteq [Models -> Nat]
    /\ ConfigGPUs \subseteq 1 .. NGPUs
    /\ NGPUs \in Nat
    /\ Capacity \in Nat
    /\ {RateInterval, BeaconInterval, HistLen} \subseteq Nat \ {0}

VARIABLES
    pc,             \* the server thread: "boot", "idle", "setup", "schedule"
    rate,           \* mPerTaskEWMARate
    mPerTaskTgtRate, backup_tgt_rate,
    mPerTaskRateHist,
    sysFlush,       \* _SYS_FLUSH
    session,        \* the models to schedule in this epoch
    mPrevState, mCurrState, mNextState,
    mNeedUpdate,
    configured,     \* _typeToNumofTypeTable, summed
    numMaxGPU       \* _numMaxGPU

states == <<mPrevState, mCurrState, mNextState, mNeedUpdate>>
targets == <<mPerTaskTgtRate, backup_tgt_rate, mPerTaskRateHist>>
vars == <<pc, rate, targets, sysFlush, session, states, configured, numMaxGPU>>

Tenths == 10
NoState == [gpus |-> 0, plan |-> [m \in Models |-> 0]]

-----------------------------------------------------------------------------
(* Measuring *)

\* EWMA: the average after one more count, with alpha = 2 / (N + 1).
AlphaN == Max({BeaconInterval \div RateInterval, 1})
UpdateRate(old, cnt) ==
    (2 * ((cnt * 1000 * Tenths) \div RateInterval) + (AlphaN - 1) * old) \div (AlphaN + 1)

\* initMonitor: the count of one model over the last interval.
Monitor(m) ==
    /\ pc # "boot"
    /\ \E cnt \in Counts : rate' = [rate EXCEPT ![m] = UpdateRate(@, cnt)]
    /\ UNCHANGED <<pc, targets, sysFlush, session, states, configured, numMaxGPU>>

-----------------------------------------------------------------------------
(* Targets *)

updateHist(m) == SubSeq(<<rate[m]>> \o mPerTaskRateHist[m], 1,
                        Min({HistLen, Len(mPerTaskRateHist[m]) + 1}))

MaxHist(hist) == Max(Range(hist))

\* A history without the entries that are r, the others in their order.
Without(hist, r) ==
    LET kept[n \in 0 .. Len(hist)] ==
          IF n = 0 THEN <<>>
          ELSE IF hist[n] = r THEN kept[n - 1]
          ELSE Append(kept[n - 1], hist[n])
    IN  kept[Len(hist)]

\* removeMaxRates: every occurrence of the largest rate is forgotten, unless
\* it is the only entry.
removeMaxRates ==
    [m \in Models |->
       IF Len(mPerTaskRateHist[m]) < 2 THEN mPerTaskRateHist[m]
       ELSE Without(mPerTaskRateHist[m], MaxHist(mPerTaskRateHist[m]))]

\* A target leaves room above the rate: half of a small rate, a fifth of a large one.
WithRoom(org_rate) ==
    IF org_rate < 125 * Tenths THEN (org_rate * 3) \div 2 ELSE (org_rate * 6) \div 5

Goal(m) == WithRoom(MaxHist(updateHist(m)))

\* The model has stopped: its target is dropped and the system flushed.
Stopped(m) == rate[m] < Tenths /\ mPerTaskTgtRate[m] > Tenths

\* The branch that would start a target where there is none is never taken:
\* looking the target up has entered 0 for it, and 0 is skipped.
Followed(m) == ~Stopped(m) /\ mPerTaskTgtRate[m] # 0
Diff(m) == Goal(m) - mPerTaskTgtRate[m]
Rises(m) == Followed(m) /\ (100 * Diff(m) > 5 * mPerTaskTgtRate[m] \/ Diff(m) > 10 * Tenths)
Falls(m) == Followed(m) /\ 100 * Diff(m) < - 10 * mPerTaskTgtRate[m]

NewTarget(m) ==
    CASE Stopped(m)            -> 0
      [] Rises(m) \/ Falls(m)  -> Goal(m)
      [] OTHER                 -> mPerTaskTgtRate[m]

setupTasks ==
    /\ pc = "setup"
    /\ mPerTaskTgtRate' = [m \in Models |-> NewTarget(m)]
    /\ mPerTaskRateHist' = [m \in Models |-> updateHist(m)]
    /\ sysFlush' = (sysFlush \/ \E m \in Models : Stopped(m) \/ Falls(m))
    /\ session' = {m \in Models : Rises(m) \/ Falls(m)}
    /\ pc' = IF session' = {} THEN "idle" ELSE "schedule"
    /\ UNCHANGED <<rate, backup_tgt_rate, states, configured, numMaxGPU>>

-----------------------------------------------------------------------------
(* Schedules *)

\* Task::request_rate is an integer.
Whole(r) == (r \div Tenths) * Tenths

\* setupAllTasks: the models that have a target.
AllTasks(tgt) == [m \in Models |-> Whole(tgt[m])]

Demand(plan) == MapThenSumSet(LAMBDA m : plan[m], Models)
Fits(plan, gpus) == Demand(plan) <= Capacity * gpus

\* getMaxGPUs counts the configured GPUs; what setMaxGPUs set is not read.
getMaxGPUs == configured

State(plan, gpus) == [gpus |-> gpus, plan |-> plan]

\* getNumofUsedGPUs: as many GPUs as the schedule happens to use.
UsedGPUs(state) ==
    {n \in 0 .. state.gpus : Fits(state.plan, n) /\ (n = 0 <=> Demand(state.plan) = 0)}

\* Mutant: the tasks already scheduled are forgotten.
IncrementalAlone == [m \in Models |->
    IF m \in session THEN Whole(mPerTaskTgtRate[m]) ELSE 0]

\* What is scheduled when only the tasks of the session change.
Incremental == [m \in Models |->
    IF m \in session THEN Whole(mPerTaskTgtRate[m]) ELSE mCurrState.plan[m]]

FullRepartition == State(AllTasks(mPerTaskTgtRate), getMaxGPUs)

\* doScheduling starts from nothing when it was told to, or when the schedule
\* has another number of GPUs than the configuration.
FromNothing == sysFlush \/ getMaxGPUs # mCurrState.gpus

\* The incremental search may succeed, the other one is tried when it fails.
Found(output) ==
    \/ /\ ~FromNothing
       /\ Fits(Incremental, getMaxGPUs)
       /\ output = State(Incremental, getMaxGPUs)
    \/ /\ Fits(FullRepartition.plan, getMaxGPUs)
       /\ output = FullRepartition

\* Mutant: the schedule is not marked for the next epoch.
AdoptUnmarked ==
    /\ pc = "schedule"
    /\ \E output \in {State(Incremental, getMaxGPUs), FullRepartition} :
         Found(output) /\ mNextState' = output
    /\ sysFlush' = FALSE
    /\ pc' = "idle"
    /\ UNCHANGED <<rate, targets, session, mPrevState, mCurrState, mNeedUpdate,
                   configured, numMaxGPU>>

\* doScheduling finds a schedule; it waits in mNextState while its models are
\* loaded (additionalLoad).  checkandReduceGPU records the GPUs it used.
Adopt ==
    /\ pc = "schedule"
    /\ \E output \in {State(Incremental, getMaxGPUs), FullRepartition} :
         /\ Found(output)
         /\ mNextState' = output
         /\ \E used \in UsedGPUs(output) :
              numMaxGPU' = IF getMaxGPUs > used THEN used ELSE numMaxGPU
    /\ mNeedUpdate' = TRUE
    /\ sysFlush' = FALSE
    /\ pc' = "idle"
    /\ UNCHANGED <<rate, targets, session, mPrevState, mCurrState, configured>>

NotFound == pc = "schedule" /\ ~Fits(FullRepartition.plan, getMaxGPUs)

\* No schedule, and fewer GPUs configured than there are: one more is asked
\* for, and the search repeated.
ScaleUp ==
    /\ NotFound
    /\ getMaxGPUs < NGPUs
    /\ sysFlush' = TRUE
    /\ numMaxGPU' = getMaxGPUs + 1
    /\ UNCHANGED <<pc, rate, targets, session, states, configured>>

\* Mutant: the targets that could not be met are kept.
RecoverSchedule ==
    /\ NotFound
    /\ getMaxGPUs >= NGPUs
    /\ mPerTaskRateHist' = removeMaxRates
    /\ sysFlush' = FALSE
    /\ pc' = "idle"
    /\ UNCHANGED <<rate, mPerTaskTgtRate, backup_tgt_rate, session, states, configured,
                   numMaxGPU>>

\* recoverFromScheduleFailure: the targets and the schedule stay what they were.
Recover ==
    /\ NotFound
    /\ getMaxGPUs >= NGPUs
    /\ mPerTaskTgtRate' = backup_tgt_rate
    /\ mPerTaskRateHist' = removeMaxRates
    /\ sysFlush' = FALSE
    /\ pc' = "idle"
    /\ UNCHANGED <<rate, backup_tgt_rate, session, states, configured, numMaxGPU>>

\* OracleScheduler: an epoch begins, and installs the schedule of the last one.
EpochBegin ==
    /\ pc = "idle"
    /\ backup_tgt_rate' = mPerTaskTgtRate
    /\ IF mNeedUpdate
         THEN /\ mPrevState' = mCurrState
              /\ mCurrState' = mNextState
         ELSE UNCHANGED <<mPrevState, mCurrState>>
    /\ mNeedUpdate' = FALSE
    /\ pc' = "setup"
    /\ UNCHANGED <<rate, mPerTaskTgtRate, mPerTaskRateHist, sysFlush, session,
                   mNextState, configured, numMaxGPU>>

\* oneshotScheduling: the smallest number of GPUs that is enough, among those
\* initiateDevs can make; main goes on when there is none.
Enough == {n \in 1 .. NGPUs : Fits(AllTasks(mPerTaskTgtRate), Min({n, configured}))}

oneshotScheduling ==
    /\ pc = "boot"
    /\ LET tried == IF Enough = {} THEN NGPUs ELSE Min(Enough)
           gpus  == Min({tried, configured})
       IN  /\ numMaxGPU' = tried
           /\ IF Enough = {}
                THEN mPrevState' = State(NoState.plan, gpus) /\ UNCHANGED mCurrState
                ELSE /\ mPrevState' = State(AllTasks(mPerTaskTgtRate), gpus)
                     /\ mCurrState' = mPrevState'
    /\ pc' = "idle"
    /\ UNCHANGED <<rate, targets, sysFlush, session, mNextState, mNeedUpdate, configured>>

-----------------------------------------------------------------------------
\* setupInitTgtRate reads the targets; initReqRate starts the averages there.
Init ==
    /\ pc = "boot"
    /\ mPerTaskTgtRate \in InitRates
    /\ backup_tgt_rate = [m \in Models |-> 0]
    /\ rate = mPerTaskTgtRate
    /\ mPerTaskRateHist = [m \in Models |-> <<>>]
    /\ sysFlush = FALSE
    /\ session = {}
    /\ mPrevState = NoState /\ mCurrState = NoState /\ mNextState = NoState
    /\ mNeedUpdate = FALSE
    /\ configured \in ConfigGPUs
    /\ numMaxGPU = NGPUs

Server == oneshotScheduling \/ EpochBegin \/ setupTasks \/ Adopt \/ ScaleUp \/ Recover
Next == Server \/ \E m \in Models : Monitor(m)

\* The server thread loops without waiting once a request has come: ready
\* counts up and is never set back to 0.
Spec == Init /\ [][Next]_vars /\ WF_vars(Server)

-----------------------------------------------------------------------------
(* Properties *)

Schedules == [gpus : 0 .. NGPUs, plan : [Models -> Nat]]

\* The types of the variables.
TypeOK ==
    /\ pc \in {"boot", "idle", "setup", "schedule"}
    /\ rate \in [Models -> Nat]
    /\ mPerTaskTgtRate \in [Models -> Nat]
    /\ backup_tgt_rate \in [Models -> Nat]
    /\ \A m \in Models : /\ mPerTaskRateHist[m] \in Seq(Nat)
                         /\ Len(mPerTaskRateHist[m]) <= HistLen
    /\ sysFlush \in BOOLEAN
    /\ session \subseteq Models
    /\ {mPrevState, mCurrState, mNextState} \subseteq Schedules
    /\ mNeedUpdate \in BOOLEAN
    /\ configured \in ConfigGPUs
    /\ numMaxGPU \in 0 .. NGPUs

Newest == IF mNeedUpdate THEN mNextState ELSE mCurrState

\* Between epochs the targets are what the newest schedule was made for:
\* every model with a target is planned at no less than that, whether the
\* epoch before adopted a schedule, changed none, or failed and reverted
\* (global_scheduler.cpp:635-722).
PlanCoversTargets ==
    pc = "idle" /\ Newest.gpus > 0 =>
      \A m \in Models : Newest.plan[m] >= Whole(mPerTaskTgtRate[m])

\* Installing a schedule never takes a model off the GPUs while it has a
\* target: the schedule was made an epoch ago, for the targets of then
\* (global_scheduler.cpp:636-647).
TargetedStayScheduled ==
    [][\A m \in Models : mCurrState.plan[m] > 0 /\ mPerTaskTgtRate[m] >= Tenths
                           => mCurrState'.plan[m] > 0]_vars

\* Once the rates stand still, the routed schedule comes to serve every model
\* that has a target at its rate or better, if the targets the rates call for
\* fit the GPUs and the configuration names all the GPUs there are: no change
\* stays within the thresholds of setupTasks, or is lost to a failed epoch
\* (global_scheduler.cpp:390-457).
SteadyRatesServed ==
    <>[][rate' = rate]_vars /\ configured = NGPUs =>
      <>[](Fits([m \in Models |-> IF mPerTaskTgtRate[m] = 0 THEN 0 ELSE WithRoom(rate[m])],
                getMaxGPUs)
             => \A m \in Models : mPerTaskTgtRate[m] # 0 => mCurrState.plan[m] >= Whole(rate[m]))
===============================================================================
