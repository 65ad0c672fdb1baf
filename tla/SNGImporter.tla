----------------------------- MODULE SNGImporter -----------------------------
(***************************************************************************)
(* SNGImporter turns a network graph, actors with channels between them,   *)
(* into the application that is explored: tasks, and messages from one     *)
(* task to others.                                                         *)
(*                                                                         *)
(* Channels are dropped, leaving messages between actors, or become memory *)
(* tasks: fifos have one of their own or share one, registers keep theirs. *)
(* A memory is written by write messages and read by read messages, and    *)
(* those of fifos remember the ports they stand for and the channels each  *)
(* of them accesses.  The names of ports that actor types have are looked  *)
(* for under another tag than they are written with, and never found.      *)
(***************************************************************************)
EXTENDS Integers, SequencesExt

CONSTANTS ActorTypes,        \* a sequence of names
          ActorInstances,    \* a sequence of [name, type]
          Fifos,             \* [name, source, target]: from an <<actor, port>> to another
          Registers,         \* [name, sources, targets]: from some ports to others
          ChanTranslation,   \* "DROPPED" or "MEMORY_TASKS"
          FifoMerging,       \* "NO", "SAME_CONTENT" or "SAME_PRODUCER" merging
          GenerateMulticast  \* of dropped channels: one message for each source port

Actor == {instance.name : instance \in ToSet(ActorInstances)}

\* The ends of a register that are looked at: dropped, without a target, none.
ends(register) ==
  IF ChanTranslation = "DROPPED" /\ register.targets = {}
  THEN {} ELSE register.sources \cup register.targets

\* Actor types and actor instances have different names.
duplicate == ~IsInjective(ActorTypes) \/ Cardinality(Actor) < Len(ActorInstances)

unknownType(instance) == instance.type \notin ToSet(ActorTypes)

unknownActor(port) == port[1] \notin Actor

FormatError ==
  \/ duplicate
  \/ \E instance \in ToSet(ActorInstances) : unknownType(instance)
  \/ \E f \in Fifos : unknownActor(f.source) \/ unknownActor(f.target)
  \/ \E r \in Registers : \E port \in ends(r) : unknownActor(port)

\* A port reads one channel, and writes to fifos or registers.
ASSUME NetworkAssumption ==
  /\ ~FormatError
  /\ ChanTranslation \in {"DROPPED", "MEMORY_TASKS"} /\ GenerateMulticast \in BOOLEAN
  /\ FifoMerging \in {"NO", "SAME_CONTENT", "SAME_PRODUCER"}
  /\ \A f, g \in Fifos : (f.name = g.name \/ f.target = g.target) => f = g
  /\ \A r, s \in Registers : (r.name = s.name \/ r.targets \cap s.targets # {}) => r = s
  /\ \A f \in Fifos, r \in Registers :
       f.name # r.name /\ f.source \notin r.sources /\ f.target \notin r.targets

-----------------------------------------------------------------------------
(* Channels that are dropped. *)

\* The message of a source port, or of a channel at it.
message(port, channel) ==
  IF GenerateMulticast THEN <<"message", port>> ELSE <<"message", port, channel.name>>

\* Of registers, each source has a message that each target receives.
droppedFifos == {<<f.source[1], message(f.source, f), f.target[1]>> : f \in Fifos}
droppedRegisters ==
  UNION {{<<p[1], message(p, r), q[1]>> : p \in r.sources, q \in r.targets} : r \in Registers}

-----------------------------------------------------------------------------
(* Channels that become memory tasks. *)

\* The fifos that share a memory and a write message are those with the same
\* name here, and of those the ones read by the same message.
writeMsgName(f) ==
  CASE FifoMerging = "NO" -> <<f.source, f.name>>
    [] FifoMerging = "SAME_CONTENT" -> <<f.source>>
    [] FifoMerging = "SAME_PRODUCER" -> <<f.source[1]>>

readMsgName(f) ==
  IF FifoMerging = "SAME_PRODUCER" THEN <<f.target[1], f.source[1]>> ELSE <<f.target>>

memTask(f) == <<"memory", writeMsgName(f)>>
writeMsg(f) == <<"write", writeMsgName(f)>>
readMsg(f) == <<"read", writeMsgName(f), readMsgName(f)>>

fifos == {<<f.source[1], writeMsg(f), memTask(f)>> : f \in Fifos}
           \cup {<<memTask(f), readMsg(f), f.target[1]>> : f \in Fifos}

\* If fifos are not merged, what a port writes is one message to all of its
\* registers, and if they are, a message to each.
registerMsg(port, r) ==
  IF FifoMerging = "NO" THEN <<"update", port>> ELSE <<"update", port, r.name>>

registers == UNION
  {LET register == <<"register", r.name>> IN
     {<<p[1], registerMsg(p, r), register>> : p \in r.sources}
       \cup {<<register, <<"sample", q>>, q[1]>> : q \in r.targets} :
   r \in Registers}

-----------------------------------------------------------------------------
\* From a task, by a message, to a task.
Flow == IF ChanTranslation = "DROPPED"
        THEN droppedFifos \cup droppedRegisters ELSE fifos \cup registers

Task == Actor \cup UNION {{flow[1], flow[3]} : flow \in Flow}
Message == {flow[2] : flow \in Flow}

\* The edges of the application, from task to message to tasks.
Pred == [m \in Message |-> (CHOOSE flow \in Flow : flow[2] = m)[1]]
Succs == [m \in Message |-> {flow[3] : flow \in {flow \in Flow : flow[2] = m}}]

ReadMessages == {flow[2] : flow \in {flow \in Flow : flow[1] \notin Actor}}

\* RepresentedWriteChannels and RepresentedReadChannels of a message, which
\* those of registers and of dropped channels do not have.
Represented == [m \in Message |->
  LET fs == {f \in Fifos : m \in {writeMsg(f), readMsg(f)}}
      port(f) == IF m \in ReadMessages THEN f.target ELSE f.source
  IN  {[port |-> port(f), channels |-> {g.name : g \in {g \in fs : port(g) = port(f)}}] :
         f \in fs}]

=============================================================================
