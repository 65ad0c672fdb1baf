------------------- MODULE SplitParallelIndividualCompleter -------------------
(***************************************************************************)
(* One call of complete: the individuals of a generation are decoded by    *)
(* one pool of threads and then evaluated by another.  An evaluation       *)
(* writes a configuration into a directory of its own, runs the simulator  *)
(* there and reads the objectives from what the simulator left.            *)
(*                                                                         *)
(* The decoder gives an individual an implementation of its own.  Which    *)
(* files and simulations fail is open, but a simulation whose set up fails *)
(* does not succeed.  The pause of the control, which holds up every       *)
(* checkpoint until it is resumed, is left out.                            *)
(***************************************************************************)
EXTENDS VPCConfiguration, VPCBuilder

CONSTANTS Individuals,         \* the iterable: a sequence of different ones
          InitialStates,       \* the states the individuals may come in
          Phenotype,           \* names of implementations
          Implementation,      \* the implementation of each name
          Generations,         \* the phenotypes the individuals may decode to
          MaxDecodeThreads, MaxEvaluateThreads,
          MaxInterrupts        \* bound: interrupts of the calling thread

ASSUME ThreadsAssumption == MaxDecodeThreads >= 1 /\ MaxEvaluateThreads >= 1

Individual == ToSet(Individuals)

ASSUME IndividualsAssumption == Individuals \in Seq(Individual) /\ IsInjective(Individuals)

ASSUME InitialStatesAssumption ==
  InitialStates \subseteq [Individual -> {"GENOTYPED", "PHENOTYPED", "EVALUATED"}]

ASSUME PhenotypeAssumption ==
  Phenotype \cap {"absent", "truncated", "functional", "infeasible"} = {}

\* The timings of a component are entered by function, whichever actor calls it:
\* actors at a resource name the functions they share, or none of them does.
ASSUME ImplementationsAssumption ==
  /\ \A p \in Phenotype : LET impl == Implementation[p] IN
       /\ IsImplementation(impl)
       /\ \A a, b \in Actor : target(impl, a) = target(impl, b) =>
            \A fn \in Functions[a] \cap Functions[b] :
              (\E t \in timings(impl, a) : t.fname = fn) <=> (\E t \in timings(impl, b) : t.fname = fn)
  /\ Generations \subseteq [Individual -> Phenotype]

Executor == {"decode", "evaluate"}

VARIABLES decoded,      \* the phenotype each individual decodes to
          state,        \* [Individual -> "GENOTYPED", "PHENOTYPED" or "EVALUATED"]
          objective,    \* recorded of each: what was simulated, or "infeasible"
          stopped,      \* the control was told to stop
          interrupts,   \* of the calling thread, so far
          caller,       \* [at, executor, next, futures]: where the call of complete is
          queue,        \* the jobs each executor has not begun
          job,          \* [Executor -> [Individual -> how far its job is]]
          evaluation,   \* the local variables of each evaluation
          process,      \* the simulator of each evaluation
          tempDirectoryCounter,
          files         \* the configuration and the results in each directory there is

\* A configuration file is named by the phenotype it is written for, unless it
\* is absent or truncated.
File == {"absent", "truncated"} \cup {p \in Phenotype : configurable(Implementation[p])}

Text(file) == IF file \in Phenotype THEN configuration(Implementation[file]) ELSE <<>>

\* The simulation a file leads to.
Simulation == [file \in File |-> evaluateOptionsMap(file, Text(file))]

individuals == <<decoded, state, objective>>
control == <<stopped, interrupts>>
executors == <<queue, job>>
simulations == <<evaluation, process, tempDirectoryCounter, files>>
vars == <<individuals, control, caller, executors, simulations>>

Init ==
  /\ decoded \in Generations
  /\ state \in InitialStates
  /\ objective = [i \in Individual |-> "infeasible"]
  /\ stopped = FALSE /\ interrupts = 0
  /\ caller = [at |-> "submit", executor |-> "decode", next |-> 1, futures |-> <<>>]
  /\ queue = [e \in Executor |-> <<>>]
  /\ job = [e \in Executor |-> [i \in Individual |-> "none"]]
  /\ evaluation = [i \in Individual |->
                     [at |-> "none", directory |-> 0, error |-> FALSE, interrupted |-> FALSE]]
  /\ process = [i \in Individual |-> "none"]
  /\ tempDirectoryCounter = 0
  /\ files = <<>>

-----------------------------------------------------------------------------
(* The calling thread. *)

\* Mutant: the second loop has the condition of the first.
submittedUndecoded(i) == state[i] # "PHENOTYPED"

\* An individual that is evaluated gets a job of the first pool all the same.
submitted(i) ==
  IF caller.executor = "decode" THEN state[i] # "PHENOTYPED" ELSE state[i] # "EVALUATED"

Submit ==
  /\ caller.at = "submit" /\ caller.next <= Len(Individuals)
  /\ LET i == Individuals[caller.next]
         e == caller.executor
     IN  IF submitted(i)
         THEN /\ queue' = [queue EXCEPT ![e] = Append(@, i)]
              /\ job' = [job EXCEPT ![e][i] = "queued"]
              /\ caller' = [caller EXCEPT !.next = @ + 1, !.futures = Append(@, i)]
         ELSE caller' = [caller EXCEPT !.next = @ + 1] /\ UNCHANGED executors
  /\ UNCHANGED <<individuals, control, simulations>>

AllSubmitted ==
  /\ caller.at = "submit" /\ caller.next > Len(Individuals)
  /\ caller' = [caller EXCEPT !.at = "await"]
  /\ UNCHANGED <<individuals, control, executors, simulations>>

\* future.get() of a job that is done, or is interrupted and given up.
GotFuture ==
  /\ caller.at = "await" /\ caller.futures # <<>>
  /\ \/ job[caller.executor][Head(caller.futures)] = "done" /\ UNCHANGED interrupts
     \/ /\ job[caller.executor][Head(caller.futures)] \in {"queued", "running"}
        /\ interrupts < MaxInterrupts /\ interrupts' = interrupts + 1
  /\ caller' = [caller EXCEPT !.futures = Tail(@)]
  /\ UNCHANGED <<individuals, stopped, executors, simulations>>

AllGot ==
  /\ caller.at = "await" /\ caller.futures = <<>>
  /\ caller' = IF caller.executor = "decode"
               THEN [at |-> "submit", executor |-> "evaluate", next |-> 1, futures |-> <<>>]
               ELSE [caller EXCEPT !.at = "returned"]
  /\ UNCHANGED <<individuals, control, executors, simulations>>

\* shutdownNow drops the jobs of the queue and interrupts the workers; the
\* exception of the job is thrown on.
Throw ==
  /\ caller.at = "await" /\ caller.futures # <<>>
  /\ job[caller.executor][Head(caller.futures)] \in {"terminated", "failed"}
  /\ caller' = [caller EXCEPT !.at = "thrown"]
  /\ queue' = [queue EXCEPT ![caller.executor] = <<>>]
  /\ evaluation' = [i \in Individual |->
       [evaluation[i] EXCEPT
          !.interrupted = @ \/ (caller.executor = "evaluate" /\ job["evaluate"][i] = "running")]]
  /\ UNCHANGED <<individuals, control, job, process, tempDirectoryCounter, files>>

Stop ==
  /\ ~stopped /\ stopped' = TRUE
  /\ UNCHANGED <<individuals, interrupts, caller, executors, simulations>>

-----------------------------------------------------------------------------
(* The workers: how both pools begin and end a job. *)

Workers(e) == IF e = "decode" THEN MaxDecodeThreads ELSE MaxEvaluateThreads

ended == IF stopped THEN "terminated" ELSE "done"

\* There is nothing to do for an individual that is evaluated, and a stop
\* keeps the job from beginning.
Begin(e) ==
  /\ queue[e] # <<>>
  /\ Cardinality({i \in Individual : job[e][i] = "running"}) < Workers(e)
  /\ queue' = [queue EXCEPT ![e] = Tail(@)]
  /\ LET i    == Head(queue[e])
         runs == state[i] # "EVALUATED" /\ ~stopped
         left == IF state[i] = "EVALUATED" THEN "done" ELSE "terminated"
     IN  /\ job' = [job EXCEPT ![e][i] = IF runs THEN "running" ELSE left]
         /\ evaluation' = IF e = "evaluate" /\ runs
                          THEN [evaluation EXCEPT ![i].at = "begin"] ELSE evaluation
  /\ UNCHANGED <<individuals, control, caller, process, tempDirectoryCounter, files>>

DecodeIndividual(i) ==
  /\ job["decode"][i] = "running"
  /\ state' = [state EXCEPT ![i] = "PHENOTYPED"]
  /\ job' = [job EXCEPT !["decode"][i] = ended]
  /\ UNCHANGED <<decoded, objective, control, caller, queue, simulations>>

-----------------------------------------------------------------------------
(* VPCEvaluator.evaluate, and the simulator it runs. *)

\* mkdir(): a directory is empty, if it has not been there before.
created(d) ==
  [x \in DOMAIN files \cup {d} |->
     IF x \in DOMAIN files THEN files[x] ELSE [config |-> "absent", result |-> "absent"]]

\* Mutant: the counter of directories stays.
BeginEvaluationUncounted(i) ==
  /\ evaluation[i].at = "begin" /\ state[i] = "PHENOTYPED"
  /\ evaluation' = [evaluation EXCEPT ![i].at = "write", ![i].directory = tempDirectoryCounter]
  /\ files' = created(tempDirectoryCounter)
  /\ UNCHANGED <<individuals, control, caller, executors, process, tempDirectoryCounter>>

\* An individual without an implementation cannot be evaluated; the directory
\* of an evaluation is new.
BeginEvaluation(i) ==
  /\ evaluation[i].at = "begin"
  /\ IF state[i] = "PHENOTYPED"
     THEN /\ evaluation' = [evaluation EXCEPT ![i].at = "write",
                                              ![i].directory = tempDirectoryCounter]
          /\ tempDirectoryCounter' = tempDirectoryCounter + 1
          /\ files' = created(tempDirectoryCounter)
          /\ UNCHANGED job
     ELSE /\ job' = [job EXCEPT !["evaluate"][i] = "failed"]
          /\ evaluation' = [evaluation EXCEPT ![i].at = "none"]
          /\ UNCHANGED <<tempDirectoryCounter, files>>
  /\ UNCHANGED <<individuals, control, caller, queue, process>>

\* After a configuration that could not be stored, an error, the simulator is
\* started all the same; it may not start, an error too.
WriteConfig(i) ==
  /\ evaluation[i].at = "write" /\ configurable(Implementation[decoded[i]])
  /\ \E file \in {decoded[i], "truncated", "absent"}, starts \in BOOLEAN :
       /\ files' = [files EXCEPT ![evaluation[i].directory].config = file]
       /\ process' = [process EXCEPT ![i] = IF starts THEN "running" ELSE @]
       /\ evaluation' = [evaluation EXCEPT
                           ![i].at = IF starts THEN "wait" ELSE "collect",
                           ![i].error = file # decoded[i] \/ ~starts]
  /\ UNCHANGED <<individuals, control, caller, executors, tempDirectoryCounter>>

\* An attribute of a mapping that is not supported, or a message that stands
\* for no port, ends the job.
Unconfigurable(i) ==
  /\ evaluation[i].at = "write" /\ ~configurable(Implementation[decoded[i]])
  /\ job' = [job EXCEPT !["evaluate"][i] = "failed"]
  /\ evaluation' = [evaluation EXCEPT ![i].at = "none"]
  /\ UNCHANGED <<individuals, control, caller, queue, process, tempDirectoryCounter, files>>

\* The results of a simulation of a file.
simulated(file) == IF Simulation[file].on THEN file ELSE "functional"

\* A simulation of the configuration in its directory.  One that is set up may
\* succeed, or fail with or without results; any may stop for good when it has
\* written more than its pipes hold, which are not read before it has exited.
Simulate(i) ==
  /\ process[i] = "running"
  /\ LET dir   == evaluation[i].directory
         setUp == ~Simulation[files[dir].config].conf.failed
     IN  \/ /\ setUp
            /\ process' = [process EXCEPT ![i] = "succeeded"]
            /\ files' = [files EXCEPT ![dir].result = simulated(files[dir].config)]
         \/ /\ process' = [process EXCEPT ![i] = "failed"]
            /\ \/ UNCHANGED files
               \/ setUp /\ files' = [files EXCEPT ![dir].result = simulated(files[dir].config)]
         \/ /\ process' = [process EXCEPT ![i] = "blocked"]
            /\ UNCHANGED files
  /\ UNCHANGED <<individuals, control, caller, executors, evaluation, tempDirectoryCounter>>

\* After the simulator has exited, or an interrupt before that, which leaves
\* it running: the objective is infeasible after an error or without results.
Collect(i) ==
  /\ \/ evaluation[i].at = "collect"
     \/ /\ evaluation[i].at = "wait"
        /\ process[i] \in {"succeeded", "failed"} \/ evaluation[i].interrupted
  /\ LET error  == evaluation[i].error \/ process[i] # "succeeded"
         result == files[evaluation[i].directory].result
     IN  objective' = [objective EXCEPT ![i] =
                         IF error \/ result = "absent" THEN "infeasible" ELSE result]
  /\ state' = [state EXCEPT ![i] = "EVALUATED"]
  /\ evaluation' = [evaluation EXCEPT ![i].at = "none"]
  /\ job' = [job EXCEPT !["evaluate"][i] = ended]
  /\ UNCHANGED <<decoded, control, caller, queue, process, tempDirectoryCounter, files>>

Next ==
  \/ Submit \/ AllSubmitted \/ GotFuture \/ AllGot \/ Throw \/ Stop
  \/ \E e \in Executor : Begin(e)
  \/ \E i \in Individual : DecodeIndividual(i) \/ BeginEvaluation(i) \/ WriteConfig(i)
       \/ Unconfigurable(i) \/ Simulate(i) \/ Collect(i)

\* Threads and simulators go on as long as they can; nobody has to stop the
\* optimization, and an interrupt is never due.
Fairness ==
  /\ WF_vars(Submit \/ AllSubmitted \/ GotFuture \/ AllGot \/ Throw)
  /\ \A e \in Executor : WF_vars(Begin(e))
  /\ \A i \in Individual :
       /\ WF_vars(DecodeIndividual(i)) /\ WF_vars(Simulate(i))
       /\ WF_vars(BeginEvaluation(i) \/ WriteConfig(i) \/ Unconfigurable(i) \/ Collect(i))

Spec == Init /\ [][Next]_vars /\ Fairness

-----------------------------------------------------------------------------
\* One of the trees carries a channel from one resource to another over links.
carries(trees, channel, from, to, links) ==
  \E tree \in trees :
    /\ tree[1].component = from
    /\ \E h \in DOMAIN tree : tree[h].component = to /\ channel \in tree[h].destinations
    /\ \A h \in DOMAIN tree \ {1} :
         tree[h].parent < h /\ <<tree[tree[h].parent].component, tree[h].component>> \in links

\* The delays a mapping of the template is given: an attribute of OpenDSE goes
\* before timings.
delays(impl, t) ==
  LET element == Template.mappings[impl.mapping[t].element]
      maps    == SelectSeq(element.opendse, LAMBDA a : a.name = ActorDelay)
  IN  IF maps = <<>> THEN ToSet(element.timings)
      ELSE {[fname |-> a.name, delay |-> a.value] : a \in ToSet(Last(maps).nested)}

delayed(conf, impl, a, fn) ==
  LET component == target(impl, a)
      named     == {t \in delays(impl, a) : t.fname = fn}
  IN  [fname |-> IF named # {} THEN fn ELSE "",
       delay |-> timing(conf, component, conf.execModels[component].startup, a, fn)]
        \in delays(impl, a)

\* A component of the template is observed by all it names, in this order.
observed(conf, component) ==
  LET named == SelectSeq(component.attributes,
                         LAMBDA a : a.type \in {"tracing", "tracer", "observer"})
  IN  conf.observedBy[component.name] = [i \in DOMAIN named |-> named[i].value]

\* A simulation has the resources of an implementation, with their observers,
\* runs each actor where it is mapped, with the delays the template gives it
\* there, and sends the data of each fifo from both of its ports to the memory
\* it is mapped to, over the links it is routed over.
simulates(conf, impl) ==
  /\ ~conf.failed
  /\ DOMAIN conf.components = impl.resources
  /\ \A component \in ToSet(componentsOf(Template)) :
       component.name \in impl.resources => observed(conf, component)
  /\ \A a \in Actor : /\ conf.vpcTasks[a] = target(impl, a)
                      /\ \A fn \in Functions[a] : delayed(conf, impl, a, fn)
  /\ \A f \in Fifos :
       LET memory == target(impl, memTask(f))
       IN  /\ carries(conf.routes[f.source], f.name, target(impl, f.source[1]), memory,
                      impl.routing[writeMsg(f)])
           /\ carries(conf.routes[f.target], f.name, target(impl, f.target[1]), memory,
                      {<<l[2], l[1]>> : l \in impl.routing[readMsg(f)]})

Simulating ==
  {x \in File \X Phenotype :
     LET simulation == Simulation[x[1]]
     IN  simulation.on /\ simulates(simulation.conf, Implementation[x[2]])}

\* The value recorded of an individual comes from a simulation of its own
\* implementation, as the simulator set it up from the file that was written:
\* parallel evaluations do not read each other's files, and neither a file that
\* is missing or truncated nor a simulation that failed or was given up yields
\* a value (VPCEvaluator.evaluate).
EvaluatedFaithfully ==
  \A i \in Individual : objective[i] = "infeasible" \/ <<objective[i], decoded[i]>> \in Simulating

\* The call of complete comes to an end: it returns, with every individual
\* evaluated unless it was interrupted, or throws because the optimization
\* was stopped or a job failed; only a simulator that waits for its output to
\* be read can keep it from that (VPCEvaluator.java:219).
Completed ==
  \/ /\ caller.at = "returned"
     /\ interrupts = 0 => \A i \in Individual : state[i] = "EVALUATED"
  \/ caller.at = "thrown" /\ (stopped \/ \E i \in Individual : job["evaluate"][i] = "failed")
  \/ \E i \in Individual : process[i] = "blocked"

CompleteReturns == <>Completed

=============================================================================
