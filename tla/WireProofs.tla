------------------------------ MODULE WireProofs ------------------------------
(***************************************************************************)
(* Proofs about Wire, for any number of jobs and heartbeats, in three parts:   *)
(* a connection that has carried no job, or no heartbeat since the worker     *)
(* registered, carries the frames of one thread in each direction; in either   *)
(* direction it is a Channel; and no more results are handled than jobs sent.  *)
(***************************************************************************)
EXTENDS Wire, Induction, SequenceTheorems

LEMMA Constants == MaxJobs \in Nat /\ MaxBeats \in Nat
BY WireAssumption

SendersTo(side) == IF side = "worker" THEN ControllerThreads ELSE WorkerThreads
UnitSet == [part : {"size", "body"}, from : Threads, msg : Messages]

-----------------------------------------------------------------------------
(* The inductive invariant *)

\* TypeOK but for the number of results.
Types ==
    /\ stream \in [Sides -> Seq(UnitSet)]
    /\ have \in [Sides -> Threads \cup {None}]
    /\ due \in [Threads -> Messages \cup {None}]
    /\ half \subseteq Threads
    /\ wstate \in {"off", "registering", "running", "lost", "gone"}
    /\ registered \in BOOLEAN
    /\ cstate \in {"open", "closed"}
    /\ jobs \in Nat /\ beats \in Nat

\* What each thread ever sends.
Sends(t) ==
    CASE t = "main" -> {"WORKER_REGISTER"}
      [] t = "loop" -> {"JOB_RESULT"}
      [] t = "heart" -> {"HEARTBEAT"}
      [] t = "scheduler" -> {"JOB_ASSIGN"}
      [] t = "handler" -> {"WORKER_REGISTER_ACK", "HEARTBEAT_ACK"}

OwnMessages ==
    /\ \A t \in Threads : due[t] \in Sends(t) \cup {None}
    /\ \A side \in Sides : \A i \in 1 .. Len(stream[side]) :
        /\ stream[side][i].from \in SendersTo(side)
        /\ stream[side][i].msg \in Sends(stream[side][i].from)
    /\ \A side \in Sides : have[side] \in SendersTo(side) \cup {None}

HalfDue == \A t \in half : due[t] # None

\* Without a heartbeat its thread is silent, without a job the scheduler.
Silent ==
    /\ beats = 0 => due["heart"] = None
    /\ jobs = 0 =>
        /\ due["scheduler"] = None
        /\ have["worker"] # "scheduler"
        /\ \A i \in 1 .. Len(stream["worker"]) : stream["worker"][i].from # "scheduler"

\* Beyond its first b units s is frames of t, the first of which has lost its size
\* to the reader if h is t, and the last of which lacks its body if t is in H.
Framed(s, b, t, h, H) ==
    /\ \A i \in b + 1 .. Len(s) : s[i].from = t
    /\ Len(s) > b => s[b + 1].part = IF h = t THEN "body" ELSE "size"
    /\ \A i \in b + 1 .. Len(s) - 1 : s[i].part # s[i + 1].part
    /\ Len(s) > b => s[Len(s)].part = IF t \in H THEN "size" ELSE "body"
    /\ Len(s) = b => (t \in H <=> h = t)

\* The frames to a side are those of t.
Sole(side, t) ==
    /\ have[side] \in {None, t}
    /\ Framed(stream[side], 0, t, have[side], half)

Fresh(side) == stream[side] = <<>> /\ have[side] = None

Unstarted ==
    /\ Fresh("worker") /\ Fresh("controller")
    /\ due = [t \in Threads |-> None]
    /\ cstate = "open" /\ ~registered /\ jobs = 0 /\ beats = 0

\* The unit i to a side is this part of a frame of t.
UnitIs(side, i, part, t) ==
    stream[side][i].part = part /\ stream[side][i].from = t

\* The registration is on its way.
Applying ==
    /\ ~registered /\ due["handler"] = None /\ due["scheduler"] = None
    /\ Fresh("worker")
    /\ \/ due["main"] # None /\ "main" \notin half /\ Fresh("controller")
       \/ /\ "main" \in half
          /\ \/ /\ have["controller"] = None /\ Len(stream["controller"]) = 1
                /\ UnitIs("controller", 1, "size", "main")
             \/ have["controller"] = "main" /\ stream["controller"] = <<>>
       \/ /\ due["main"] = None
          /\ \/ /\ have["controller"] = None /\ Len(stream["controller"]) = 2
                /\ UnitIs("controller", 1, "size", "main")
                /\ UnitIs("controller", 2, "body", "main")
             \/ /\ have["controller"] = "main" /\ Len(stream["controller"]) = 1
                /\ UnitIs("controller", 1, "body", "main")

\* The worker will read a part of a job before the acknowledgement is whole.
Overtaken ==
    \/ have["worker"] = "scheduler"
    \/ stream["worker"] # <<>> /\ stream["worker"][1].from = "scheduler"
    \/ /\ have["worker"] = None /\ Len(stream["worker"]) >= 2
       /\ UnitIs("worker", 1, "size", "handler")
       /\ stream["worker"][2].from = "scheduler"

\* The acknowledgement is still to be sent; its size is sent; it is whole, and
\* only jobs follow it.
Unsent ==
    /\ due["handler"] = "WORKER_REGISTER_ACK" /\ "handler" \notin half
    /\ "scheduler" \notin half /\ Fresh("worker")
HalfSent ==
    /\ due["handler"] = "WORKER_REGISTER_ACK" /\ "handler" \in half
    /\ "scheduler" \notin half
    /\ \/ /\ have["worker"] = None /\ Len(stream["worker"]) = 1
          /\ UnitIs("worker", 1, "size", "handler")
       \/ have["worker"] = "handler" /\ stream["worker"] = <<>>
Sent ==
    /\ due["handler"] = None
    /\ \/ /\ have["worker"] = None /\ Len(stream["worker"]) >= 2
          /\ UnitIs("worker", 1, "size", "handler")
          /\ UnitIs("worker", 2, "body", "handler")
          /\ stream["worker"][2].msg = "WORKER_REGISTER_ACK"
          /\ Framed(stream["worker"], 2, "scheduler", None, half)
       \/ /\ have["worker"] = "handler" /\ Len(stream["worker"]) >= 1
          /\ UnitIs("worker", 1, "body", "handler")
          /\ stream["worker"][1].msg = "WORKER_REGISTER_ACK"
          /\ Framed(stream["worker"], 1, "scheduler", None, half)

Welcomed ==
    /\ due["main"] = None /\ Fresh("controller")
    /\ Unsent \/ HalfSent \/ Sent \/ Overtaken

Joining ==
    /\ cstate = "open" /\ due["heart"] = None /\ due["loop"] = None
    /\ Applying \/ Welcomed

\* Of a registered worker, without heartbeats and without jobs.
Running ==
    /\ due["main"] = None
    /\ beats = 0 =>
        /\ due["handler"] = None
        /\ Sole("worker", "scheduler") /\ Sole("controller", "loop")
    /\ jobs = 0 =>
        /\ due["loop"] = None
        /\ Sole("worker", "handler") /\ Sole("controller", "heart")

WireInv ==
    /\ Types /\ OwnMessages /\ HalfDue /\ Silent
    /\ wstate = "off" => Unstarted
    /\ wstate = "registering" => Joining
    /\ wstate = "running" => Running
    /\ BreaksTakeBoth

-----------------------------------------------------------------------------
(* Frames of one thread *)

LEMMA Parts ==
    ASSUME NEW s \in Seq(UnitSet)
    PROVE  Len(s) \in Nat /\ \A i \in 1 .. Len(s) : s[i].part \in {"size", "body"}
<1>1. \A i \in 1 .. Len(s) : s[i] \in UnitSet
  BY ElementOfSeq
<1>2. QED  BY <1>1, LenProperties DEF UnitSet

LEMMA FramedSize ==
    ASSUME NEW s \in Seq(UnitSet), NEW b \in Nat, b <= Len(s), NEW t \in Threads,
           NEW h \in Threads \cup {None}, NEW H \in SUBSET Threads,
           Framed(s, b, t, h, H), t \notin H,
           NEW u \in UnitSet, u.from = t, u.part = "size"
    PROVE  Framed(Append(s, u), b, t, h, H \cup {t})
<1>1. /\ Append(s, u) \in Seq(UnitSet) /\ Len(Append(s, u)) = Len(s) + 1
      /\ Append(s, u)[Len(s) + 1] = u
      /\ \A i \in 1 .. Len(s) : Append(s, u)[i] = s[i]
  BY AppendProperties
<1>2. Len(s) \in Nat /\ \A i \in 1 .. Len(s) : s[i].part \in {"size", "body"}
  BY Parts
<1>3. \A i \in b + 1 .. Len(s) + 1 : Append(s, u)[i].from = t
  BY <1>1, <1>2 DEF Framed
<1>4. Append(s, u)[b + 1].part = IF h = t THEN "body" ELSE "size"
  BY <1>1, <1>2 DEF Framed
<1>5. ASSUME NEW i \in b + 1 .. Len(s)
      PROVE  Append(s, u)[i].part # Append(s, u)[i + 1].part
  <2>1. CASE i < Len(s)
    <3>1. i \in b + 1 .. Len(s) - 1 /\ i \in 1 .. Len(s) /\ i + 1 \in 1 .. Len(s)
      BY <1>2, <2>1
    <3>2. QED  BY <1>1, <3>1 DEF Framed
  <2>2. CASE i = Len(s)
    <3>1. Len(s) > b /\ Len(s) \in 1 .. Len(s)
      BY <1>2, <2>2
    <3>2. s[Len(s)].part # "size"
      BY <3>1 DEF Framed
    <3>3. QED  BY <1>1, <2>2, <3>1, <3>2
  <2>3. QED  BY <1>2, <2>1, <2>2
<1>6. QED  BY <1>1, <1>2, <1>3, <1>4, <1>5 DEF Framed

LEMMA FramedBody ==
    ASSUME NEW s \in Seq(UnitSet), NEW b \in Nat, b <= Len(s), NEW t \in Threads,
           NEW h \in Threads \cup {None}, NEW H \in SUBSET Threads,
           Framed(s, b, t, h, H), t \in H,
           NEW u \in UnitSet, u.from = t, u.part = "body"
    PROVE  Framed(Append(s, u), b, t, h, H \ {t})
<1>1. /\ Append(s, u) \in Seq(UnitSet) /\ Len(Append(s, u)) = Len(s) + 1
      /\ Append(s, u)[Len(s) + 1] = u
      /\ \A i \in 1 .. Len(s) : Append(s, u)[i] = s[i]
  BY AppendProperties
<1>2. Len(s) \in Nat /\ \A i \in 1 .. Len(s) : s[i].part \in {"size", "body"}
  BY Parts
<1>3. \A i \in b + 1 .. Len(s) + 1 : Append(s, u)[i].from = t
  BY <1>1, <1>2 DEF Framed
<1>4. Append(s, u)[b + 1].part = IF h = t THEN "body" ELSE "size"
  BY <1>1, <1>2 DEF Framed
<1>5. ASSUME NEW i \in b + 1 .. Len(s)
      PROVE  Append(s, u)[i].part # Append(s, u)[i + 1].part
  <2>1. CASE i < Len(s)
    <3>1. i \in b + 1 .. Len(s) - 1 /\ i \in 1 .. Len(s) /\ i + 1 \in 1 .. Len(s)
      BY <1>2, <2>1
    <3>2. QED  BY <1>1, <3>1 DEF Framed
  <2>2. CASE i = Len(s)
    <3>1. Len(s) > b /\ Len(s) \in 1 .. Len(s)
      BY <1>2, <2>2
    <3>2. s[Len(s)].part = "size"
      BY <3>1 DEF Framed
    <3>3. QED  BY <1>1, <2>2, <3>1, <3>2
  <2>3. QED  BY <1>2, <2>1, <2>2
<1>6. Append(s, u)[Len(s) + 1].part = "body" /\ t \notin H \ {t}
  BY <1>1
<1>7. b + 1 .. (Len(s) + 1) - 1 = b + 1 .. Len(s) /\ Len(s) + 1 > b
  BY <1>2
<1>8. QED  BY <1>1, <1>2, <1>3, <1>4, <1>5, <1>6, <1>7 DEF Framed

\* Another thread's part of a frame does not matter to the frames of t.
LEMMA FramedOther ==
    ASSUME NEW s, NEW b, NEW t, NEW h, NEW H, NEW G,
           Framed(s, b, t, h, H), t \in H <=> t \in G
    PROVE  Framed(s, b, t, h, G)
BY DEF Framed

\* A unit before the frames is read.
LEMMA FramedShift ==
    ASSUME NEW s \in Seq(UnitSet), NEW b \in Nat \ {0}, b <= Len(s), NEW t \in Threads,
           NEW h \in Threads \cup {None}, NEW H \in SUBSET Threads,
           Framed(s, b, t, h, H)
    PROVE  Framed(Tail(s), b - 1, t, h, H)
<1>1. /\ Len(s) \in Nat \ {0} /\ Len(Tail(s)) = Len(s) - 1
      /\ \A i \in 1 .. Len(s) - 1 : Tail(s)[i] = s[i + 1]
  BY HeadTailProperties
<1>2. \A i \in b .. Len(s) - 1 : Tail(s)[i] = s[i + 1] /\ i + 1 \in b + 1 .. Len(s)
  BY <1>1
<1>3. \A i \in b .. Len(s) - 1 : Tail(s)[i].from = t
  BY <1>2 DEF Framed
<1>4. Len(s) > b => Tail(s)[b].part = IF h = t THEN "body" ELSE "size"
  <2> SUFFICES ASSUME Len(s) > b
               PROVE  Tail(s)[b].part = IF h = t THEN "body" ELSE "size"
    OBVIOUS
  <2>1. Tail(s)[b] = s[b + 1]
    BY <1>1
  <2>2. QED  BY <2>1 DEF Framed
<1>5. \A i \in b .. Len(s) - 2 : Tail(s)[i].part # Tail(s)[i + 1].part
  <2>1. ASSUME NEW i \in b .. Len(s) - 2
        PROVE  Tail(s)[i].part # Tail(s)[i + 1].part
    <3>1. /\ i \in b .. Len(s) - 1 /\ i + 1 \in b .. Len(s) - 1
          /\ i + 1 \in b + 1 .. Len(s) - 1
      BY <1>1, <2>1
    <3>2. QED  BY <1>2, <3>1 DEF Framed
  <2>2. QED  BY <2>1
<1>6. Len(s) > b => Tail(s)[Len(s) - 1].part = IF t \in H THEN "size" ELSE "body"
  BY <1>1, <1>2 DEF Framed
<1>7. Len(s) = b => (t \in H <=> h = t)
  BY DEF Framed
<1>8. /\ b - 1 + 1 = b /\ (Len(s) - 1) - 1 = Len(s) - 2
      /\ Len(s) - 1 > b - 1 <=> Len(s) > b
      /\ Len(s) - 1 = b - 1 <=> Len(s) = b
  BY <1>1
<1>9. QED  BY <1>1, <1>3, <1>4, <1>5, <1>6, <1>7, <1>8 DEF Framed

\* The size, or the body, of the first frame is read.
LEMMA FramedRead ==
    ASSUME NEW s \in Seq(UnitSet), s # <<>>, NEW t \in Threads,
           NEW h \in {None, t}, NEW H \in SUBSET Threads,
           Framed(s, 0, t, h, H)
    PROVE  /\ s[1].from = t
           /\ s[1].part = IF h = t THEN "body" ELSE "size"
           /\ Framed(Tail(s), 0, t, IF h = t THEN None ELSE t, H)
<1>1. /\ Len(s) \in Nat \ {0} /\ Len(Tail(s)) = Len(s) - 1
      /\ \A i \in 1 .. Len(s) - 1 : Tail(s)[i] = s[i + 1]
  BY HeadTailProperties
<1>2. \A i \in 1 .. Len(s) : s[i].from = t
  BY <1>1 DEF Framed
<1>3. s[1].part = IF h = t THEN "body" ELSE "size"
  BY <1>1 DEF Framed
<1>4. /\ s[1].from = t /\ None # t
      /\ \A i \in 1 .. Len(s) : s[i].part \in {"size", "body"}
  BY <1>1, <1>2, Parts DEF Threads, WorkerThreads, ControllerThreads, None
<1>5. \A i \in 1 .. Len(s) - 1 : s[i].part # s[i + 1].part
  BY <1>1 DEF Framed
<1>6. s[Len(s)].part = IF t \in H THEN "size" ELSE "body"
  BY <1>1 DEF Framed
<1> DEFINE g == IF h = t THEN None ELSE t
<1>7. g = t <=> h # t
  BY <1>4
<1>8. \A i \in 1 .. Len(s) - 1 : Tail(s)[i].from = t
  BY <1>1, <1>2
<1> HIDE DEF g
<1>9. Len(s) - 1 > 0 => Tail(s)[1].part = IF g = t THEN "body" ELSE "size"
  <2> SUFFICES ASSUME Len(s) - 1 > 0
               PROVE  Tail(s)[1].part = IF g = t THEN "body" ELSE "size"
    OBVIOUS
  <2>1. Tail(s)[1] = s[2] /\ s[1].part # s[2].part /\ s[2].part \in {"size", "body"}
    BY <1>1, <1>4, <1>5
  <2>2. QED  BY <1>3, <1>7, <2>1
<1>10. \A i \in 1 .. Len(s) - 2 : Tail(s)[i].part # Tail(s)[i + 1].part
  <2>1. ASSUME NEW i \in 1 .. Len(s) - 2
        PROVE  Tail(s)[i].part # Tail(s)[i + 1].part
    <3>1. i \in 1 .. Len(s) - 1 /\ i + 1 \in 1 .. Len(s) - 1
      BY <1>1, <2>1
    <3>2. QED  BY <1>1, <1>5, <3>1
  <2>2. QED  BY <2>1
<1>11. Len(s) - 1 > 0 => Tail(s)[Len(s) - 1].part = IF t \in H THEN "size" ELSE "body"
  BY <1>1, <1>6
<1>12. Len(s) - 1 = 0 => (t \in H <=> g = t)
  <2> SUFFICES ASSUME Len(s) = 1  PROVE t \in H <=> g = t
    BY <1>1
  <2>1. s[1].part = IF t \in H THEN "size" ELSE "body"
    BY <1>6
  <2>2. CASE t \in H
    BY <1>3, <1>7, <2>1, <2>2
  <2>3. CASE t \notin H
    BY <1>3, <1>7, <2>1, <2>3
  <2>4. QED  BY <2>2, <2>3
<1>13. Framed(Tail(s), 0, t, g, H)
  BY <1>1, <1>8, <1>9, <1>10, <1>11, <1>12 DEF Framed
<1>14. QED  BY <1>3, <1>4, <1>13 DEF g

-----------------------------------------------------------------------------
(* Sending *)

LEMMA Places ==
    /\ Threads = {"main", "loop", "heart", "handler", "scheduler"}
    /\ Sides = {"worker", "controller"}
    /\ None \notin Threads /\ None \notin Messages
    /\ \A t \in Threads : Sends(t) \subseteq Messages /\ None \notin Sends(t)
    /\ \A t \in Threads : Other(SideOf(t)) \in Sides /\ t \in SendersTo(Other(SideOf(t)))
    /\ \A t \in {"main", "loop", "heart"} :
          SideOf(t) = "worker" /\ Other(SideOf(t)) = "controller"
    /\ \A t \in {"handler", "scheduler"} :
          SideOf(t) = "controller" /\ Other(SideOf(t)) = "worker"
BY DEF Threads, WorkerThreads, ControllerThreads, Sides, None, Messages, Sends, Other,
       SideOf, SendersTo

\* A unit is put behind what is on its way, or nothing changes.
LEMMA PutEffect ==
    ASSUME Types, OwnMessages, NEW t \in Threads, due[t] # None,
           NEW part \in {"size", "body"}, Put(t, part)
    PROVE  /\ Unit(part, t) \in UnitSet /\ Unit(part, t).from = t
           /\ Unit(part, t).part = part /\ Unit(part, t).msg = due[t]
           /\ stream' \in [Sides -> Seq(UnitSet)]
           /\ \A side \in Sides : side # Other(SideOf(t)) => stream'[side] = stream[side]
           /\ IsOpen(Other(SideOf(t))) =>
                 stream'[Other(SideOf(t))] = Append(stream[Other(SideOf(t))], Unit(part, t))
           /\ \A side \in Sides : \A i \in 1 .. Len(stream'[side]) :
                 \/ i \in 1 .. Len(stream[side]) /\ stream'[side][i] = stream[side][i]
                 \/ side = Other(SideOf(t)) /\ stream'[side][i] = Unit(part, t)
<1> DEFINE to == Other(SideOf(t))
           u == Unit(part, t)
<1>1. /\ u \in UnitSet /\ u.from = t /\ u.part = part /\ u.msg = due[t]
      /\ to \in Sides
  BY Places DEF Types, Unit, UnitSet
<1>2. /\ stream[to] \in Seq(UnitSet) /\ Len(stream[to]) \in Nat
      /\ Append(stream[to], u) \in Seq(UnitSet)
      /\ Len(Append(stream[to], u)) = Len(stream[to]) + 1
      /\ Append(stream[to], u)[Len(stream[to]) + 1] = u
      /\ \A i \in 1 .. Len(stream[to]) : Append(stream[to], u)[i] = stream[to][i]
  BY <1>1, AppendProperties, LenProperties DEF Types
<1>3. stream' = IF IsOpen(to) THEN [stream EXCEPT ![to] = Append(@, u)] ELSE stream
  BY DEF Put
<1> HIDE DEF to, u
<1>4. CASE IsOpen(to)
  <2>1. /\ stream'[to] = Append(stream[to], u)
        /\ \A side \in Sides : side # to => stream'[side] = stream[side]
    BY <1>1, <1>3, <1>4 DEF Types
  <2>2. stream' \in [Sides -> Seq(UnitSet)]
    BY <1>1, <1>2, <1>3, <1>4 DEF Types
  <2>3. ASSUME NEW side \in Sides, NEW i \in 1 .. Len(stream'[side])
        PROVE  \/ i \in 1 .. Len(stream[side]) /\ stream'[side][i] = stream[side][i]
               \/ side = to /\ stream'[side][i] = u
    <3>1. CASE side # to
      BY <2>1, <3>1
    <3>2. CASE side = to
      <4>1. i \in 1 .. Len(stream[to]) + 1
        BY <1>2, <2>1, <3>2
      <4>2. QED  BY <1>2, <2>1, <3>2, <4>1
    <3>3. QED  BY <3>1, <3>2
  <2>4. QED  BY <1>1, <2>1, <2>2, <2>3 DEF to, u
<1>5. CASE ~IsOpen(to)
  BY <1>1, <1>3, <1>5 DEF Types, to, u
<1>6. QED  BY <1>4, <1>5

\* The unconditional parts of the invariant.
LEMMA SendKeepsBasics ==
    ASSUME WireInv, NEW t \in Threads, Send(t)
    PROVE  Types' /\ OwnMessages' /\ HalfDue' /\ Silent' /\ BreaksTakeBoth'
<1>1. /\ due[t] # None
      /\ \E part \in {"size", "body"} : Put(t, part)
      /\ UNCHANGED <<have, wstate, registered, cstate, jobs, beats>>
      /\ \/ half' = half \cup {t} /\ due' = due
         \/ half' = half \ {t} /\ due' = [due EXCEPT ![t] = None]
  BY DEF Send, SendSize, SendBody, WireInv, HalfDue
<1>2. PICK part \in {"size", "body"} : Put(t, part)
  BY <1>1
<1>3. Types /\ OwnMessages /\ HalfDue /\ Silent /\ BreaksTakeBoth
  BY DEF WireInv
<1>4. /\ stream' \in [Sides -> Seq(UnitSet)]
      /\ Unit(part, t).from = t /\ Unit(part, t).msg = due[t]
      /\ \A side \in Sides : \A i \in 1 .. Len(stream'[side]) :
            \/ i \in 1 .. Len(stream[side]) /\ stream'[side][i] = stream[side][i]
            \/ side = Other(SideOf(t)) /\ stream'[side][i] = Unit(part, t)
  BY <1>1, <1>2, <1>3, PutEffect
<1>5. due[t] \in Sends(t)
  BY <1>1, <1>3 DEF OwnMessages
<1>6. Types'
  BY <1>1, <1>3, <1>4 DEF Types
<1>7. \A u \in Threads : due'[u] = due[u] \/ due'[u] = None
  BY <1>1, <1>3 DEF Types
<1>8. OwnMessages'
  <2>1. \A u \in Threads : due'[u] \in Sends(u) \cup {None}
    BY <1>3, <1>7 DEF OwnMessages
  <2>2. ASSUME NEW side \in Sides, NEW i \in 1 .. Len(stream'[side])
        PROVE  /\ stream'[side][i].from \in SendersTo(side)
               /\ stream'[side][i].msg \in Sends(stream'[side][i].from)
    <3>1. CASE i \in 1 .. Len(stream[side]) /\ stream'[side][i] = stream[side][i]
      BY <1>3, <3>1 DEF OwnMessages
    <3>2. CASE side = Other(SideOf(t)) /\ stream'[side][i] = Unit(part, t)
      BY <1>4, <1>5, <3>2, Places
    <3>3. QED  BY <1>4, <3>1, <3>2
  <2>3. QED  BY <1>1, <1>3, <2>1, <2>2 DEF OwnMessages
<1>9. HalfDue'
  BY <1>1, <1>3 DEF HalfDue, Types
<1>10. Silent'
  <2>1. beats' = 0 => due'["heart"] = None
    BY <1>1, <1>3, <1>7, Places DEF Silent
  <2>2. ASSUME jobs' = 0
        PROVE  /\ due'["scheduler"] = None /\ have'["worker"] # "scheduler"
               /\ \A i \in 1 .. Len(stream'["worker"]) :
                     stream'["worker"][i].from # "scheduler"
    <3>1. /\ due["scheduler"] = None /\ have["worker"] # "scheduler" /\ t # "scheduler"
          /\ \A i \in 1 .. Len(stream["worker"]) : stream["worker"][i].from # "scheduler"
      BY <1>1, <1>3, <2>2 DEF Silent
    <3>2. \A i \in 1 .. Len(stream'["worker"]) : stream'["worker"][i].from # "scheduler"
      <4>1. ASSUME NEW i \in 1 .. Len(stream'["worker"])
            PROVE  stream'["worker"][i].from # "scheduler"
        <5>1. \/ i \in 1 .. Len(stream["worker"]) /\ stream'["worker"][i] = stream["worker"][i]
              \/ stream'["worker"][i] = Unit(part, t)
          BY <1>4, Places
        <5>2. QED  BY <1>4, <3>1, <5>1
      <4>2. QED  BY <4>1
    <3>3. QED  BY <1>1, <1>7, <3>1, <3>2, Places
  <2>3. QED  BY <2>1, <2>2 DEF Silent
<1>11. BreaksTakeBoth'
  BY <1>1, <1>3 DEF BreaksTakeBoth
<1>12. QED  BY <1>6, <1>8, <1>9, <1>10, <1>11

\* The only thread that sends to a side adds to its frames.
LEMMA SoleSends ==
    ASSUME Types, OwnMessages, NEW t \in Threads, due[t] # None,
           NEW to \in Sides, to = Other(SideOf(t)), IsOpen(to), Sole(to, t), have' = have,
           \/ Put(t, "size") /\ t \notin half /\ half' = half \cup {t}
           \/ Put(t, "body") /\ t \in half /\ half' = half \ {t}
    PROVE  Sole(to, t)'
<1>1. /\ stream[to] \in Seq(UnitSet) /\ 0 <= Len(stream[to])
      /\ have[to] \in {None, t} /\ have[to] \in Threads \cup {None} /\ half \in SUBSET Threads
      /\ Framed(stream[to], 0, t, have[to], half)
  BY Places, LenProperties DEF Types, Sole
<1>2. CASE Put(t, "size") /\ t \notin half /\ half' = half \cup {t}
  <2>1. /\ Unit("size", t) \in UnitSet
        /\ Unit("size", t).from = t /\ Unit("size", t).part = "size"
        /\ stream'[to] = Append(stream[to], Unit("size", t))
    BY <1>2, PutEffect
  <2>2. Framed(stream'[to], 0, t, have[to], half')
    <3>1. Framed(Append(stream[to], Unit("size", t)), 0, t, have[to], half \cup {t})
      <4>1. t \notin half /\ 0 \in Nat
        BY <1>2
      <4> HIDE DEF Unit
      <4>2. QED  BY ONLY <1>1, <2>1, <4>1, t \in Threads, FramedSize
    <3>2. QED  BY <1>2, <2>1, <3>1
  <2>3. have'[to] \in {None, t} /\ Framed(stream'[to], 0, t, have'[to], half')
    BY <1>1, <2>2
  <2>4. QED  BY <2>3 DEF Sole
<1>3. CASE Put(t, "body") /\ t \in half /\ half' = half \ {t}
  <2>1. /\ Unit("body", t) \in UnitSet
        /\ Unit("body", t).from = t /\ Unit("body", t).part = "body"
        /\ stream'[to] = Append(stream[to], Unit("body", t))
    BY <1>3, PutEffect
  <2>2. Framed(stream'[to], 0, t, have[to], half')
    <3>1. Framed(Append(stream[to], Unit("body", t)), 0, t, have[to], half \ {t})
      <4>1. t \in half /\ 0 \in Nat
        BY <1>3
      <4> HIDE DEF Unit
      <4>2. QED  BY ONLY <1>1, <2>1, <4>1, t \in Threads, FramedBody
    <3>2. QED  BY <1>3, <2>1, <3>1
  <2>3. have'[to] \in {None, t} /\ Framed(stream'[to], 0, t, have'[to], half')
    BY <1>1, <2>2
  <2>4. QED  BY <2>3 DEF Sole
<1>4. QED  BY <1>2, <1>3

\* What another thread sends the other way does not disturb them.
LEMMA SoleUndisturbed ==
    ASSUME NEW side \in Sides, NEW t \in Threads, Sole(side, t),
           stream'[side] = stream[side], have'[side] = have[side],
           t \in half <=> t \in half'
    PROVE  Sole(side, t)'
BY FramedOther DEF Sole

LEMMA SendShape ==
    ASSUME WireInv, NEW t \in Threads, Send(t)
    PROVE  /\ due[t] # None
           /\ UNCHANGED <<have, wstate, registered, cstate, jobs, beats>>
           /\ \/ Put(t, "size") /\ t \notin half /\ half' = half \cup {t} /\ due' = due
              \/ /\ Put(t, "body") /\ t \in half /\ half' = half \ {t}
                 /\ due' = [due EXCEPT ![t] = None]
           /\ \A u \in Threads : u # t => due'[u] = due[u] /\ (u \in half <=> u \in half')
           /\ \A side \in Sides : side # Other(SideOf(t)) => stream'[side] = stream[side]
<1>1. /\ due[t] # None
      /\ UNCHANGED <<have, wstate, registered, cstate, jobs, beats>>
      /\ \/ Put(t, "size") /\ t \notin half /\ half' = half \cup {t} /\ due' = due
         \/ /\ Put(t, "body") /\ t \in half /\ half' = half \ {t}
            /\ due' = [due EXCEPT ![t] = None]
  BY DEF Send, SendSize, SendBody, WireInv, HalfDue
<1>2. Types /\ OwnMessages
  BY DEF WireInv
<1>3. \A u \in Threads : u # t => due'[u] = due[u] /\ (u \in half <=> u \in half')
  BY <1>1, <1>2 DEF Types
<1>4. \A side \in Sides : side # Other(SideOf(t)) => stream'[side] = stream[side]
  BY <1>1, <1>2, PutEffect
<1>5. QED  BY <1>1, <1>3, <1>4

LEMMA SendKeepsRunning ==
    ASSUME WireInv, NEW t \in Threads, Send(t), wstate = "running"
    PROVE  Running'
<1>1. /\ Types /\ OwnMessages /\ Silent /\ Running /\ due \in [Threads -> Messages \cup {None}]
      /\ beats = 0 \/ jobs = 0 => cstate = "open"
  BY DEF WireInv, BreaksTakeBoth, Types
<1>2. t # "main" /\ due'["main"] = None
  BY <1>1, SendShape, Places DEF Running
<1>3. ASSUME beats = 0, cstate = "open"
      PROVE  /\ due'["handler"] = None
             /\ Sole("worker", "scheduler")' /\ Sole("controller", "loop")'
  <2>1. /\ due["handler"] = None /\ due["heart"] = None
        /\ Sole("worker", "scheduler") /\ Sole("controller", "loop")
    BY <1>1, <1>3 DEF Running, Silent
  <2>2. t \in {"loop", "scheduler"} /\ due'["handler"] = None
    BY <1>2, <2>1, SendShape, Places
  <2>3. CASE t = "loop"
    <3>1. Sole("controller", "loop")'
      BY <1>1, <1>3, <2>1, <2>3, SendShape, SoleSends, Places DEF IsOpen
    <3>2. Sole("worker", "scheduler")'
      BY <2>1, <2>3, SendShape, SoleUndisturbed, Places
    <3>3. QED  BY <2>2, <3>1, <3>2
  <2>4. CASE t = "scheduler"
    <3>1. Sole("worker", "scheduler")'
      BY <1>1, <2>1, <2>4, SendShape, SoleSends, Places DEF IsOpen
    <3>2. Sole("controller", "loop")'
      BY <2>1, <2>4, SendShape, SoleUndisturbed, Places
    <3>3. QED  BY <2>2, <3>1, <3>2
  <2>5. QED  BY <2>2, <2>3, <2>4
<1>4. ASSUME jobs = 0, cstate = "open"
      PROVE  /\ due'["loop"] = None
             /\ Sole("worker", "handler")' /\ Sole("controller", "heart")'
  <2>1. /\ due["loop"] = None /\ due["scheduler"] = None
        /\ Sole("worker", "handler") /\ Sole("controller", "heart")
    BY <1>1, <1>4 DEF Running, Silent
  <2>2. t \in {"heart", "handler"} /\ due'["loop"] = None
    BY <1>2, <2>1, SendShape, Places
  <2>3. CASE t = "heart"
    <3>1. Sole("controller", "heart")'
      BY <1>1, <1>4, <2>1, <2>3, SendShape, SoleSends, Places DEF IsOpen
    <3>2. Sole("worker", "handler")'
      BY <2>1, <2>3, SendShape, SoleUndisturbed, Places
    <3>3. QED  BY <2>2, <3>1, <3>2
  <2>4. CASE t = "handler"
    <3>1. Sole("worker", "handler")'
      BY <1>1, <2>1, <2>4, SendShape, SoleSends, Places DEF IsOpen
    <3>2. Sole("controller", "heart")'
      BY <2>1, <2>4, SendShape, SoleUndisturbed, Places
    <3>3. QED  BY <2>2, <3>1, <3>2
  <2>5. QED  BY <2>2, <2>3, <2>4
<1>5. beats' = beats /\ jobs' = jobs
  BY SendShape
<1>6. QED  BY <1>1, <1>2, <1>3, <1>4, <1>5 DEF Running

\* The frames of the registration.
LEMMA SendKeepsApplying ==
    ASSUME WireInv, NEW t \in Threads, Send(t), wstate = "registering", Joining, Applying
    PROVE  Joining' /\ Applying'
<1>1. Types /\ OwnMessages /\ HalfDue /\ cstate = "open"
  BY DEF WireInv, Joining
<1>2. t = "main"
  BY SendShape, Places DEF Joining, Applying
<1>3. /\ due'["heart"] = None /\ due'["loop"] = None
      /\ due'["handler"] = None /\ due'["scheduler"] = None
      /\ cstate' = "open" /\ ~registered' /\ Fresh("worker")'
      /\ have' = have
  BY <1>1, <1>2, SendShape, Places DEF Joining, Applying, Fresh
<1>4. /\ stream["controller"] \in Seq(UnitSet) /\ Len(stream["controller"]) \in Nat
      /\ IsOpen("controller") /\ Other(SideOf(t)) = "controller"
  BY <1>1, <1>2, Places, LenProperties DEF Types, IsOpen
<1>5. CASE Put(t, "size") /\ t \notin half /\ half' = half \cup {t} /\ due' = due
  <2>1. Fresh("controller")
    BY <1>2, <1>5, SendShape DEF Applying
  <2>2. /\ stream'["controller"] = Append(<<>>, Unit("size", t))
        /\ Unit("size", t).from = "main" /\ Unit("size", t).part = "size"
        /\ Unit("size", t) \in UnitSet
    BY <1>1, <1>2, <1>4, <1>5, <2>1, SendShape, PutEffect DEF Fresh
  <2>3. /\ Len(stream'["controller"]) = 1
        /\ stream'["controller"][1] = Unit("size", t)
    BY <2>2
  <2>4. /\ "main" \in half'
        /\ have'["controller"] = None /\ Len(stream'["controller"]) = 1
        /\ UnitIs("controller", 1, "size", "main")'
    BY <1>2, <1>3, <1>5, <2>1, <2>2, <2>3 DEF Fresh, UnitIs
  <2>5. QED  BY <1>3, <2>4 DEF Joining, Applying
<1>6. CASE Put(t, "body") /\ t \in half /\ half' = half \ {t} /\ due' = [due EXCEPT ![t] = None]
  <2>1. due'["main"] = None
    BY <1>1, <1>2, <1>6, Places DEF Types
  <2>2. /\ stream'["controller"] = Append(stream["controller"], Unit("body", t))
        /\ Unit("body", t).from = "main" /\ Unit("body", t).part = "body"
        /\ Unit("body", t) \in UnitSet
    <3>1. due[t] # None
      BY SendShape
    <3>2. QED  BY <1>1, <1>2, <1>4, <1>6, <3>1, PutEffect
  <2>3. CASE /\ have["controller"] = None /\ Len(stream["controller"]) = 1
             /\ UnitIs("controller", 1, "size", "main")
    <3>1. /\ have'["controller"] = None /\ Len(stream'["controller"]) = 2
          /\ stream'["controller"][1] = stream["controller"][1]
          /\ stream'["controller"][2] = Unit("body", t)
      BY <1>3, <1>4, <2>2, <2>3, AppendProperties
    <3>2. /\ UnitIs("controller", 1, "size", "main")'
          /\ UnitIs("controller", 2, "body", "main")'
      BY <2>2, <2>3, <3>1 DEF UnitIs
    <3>3. QED  BY <1>3, <2>1, <3>1, <3>2 DEF Joining, Applying
  <2>4. CASE have["controller"] = "main" /\ stream["controller"] = <<>>
    <3>1. /\ have'["controller"] = "main" /\ Len(stream'["controller"]) = 1
          /\ stream'["controller"][1] = Unit("body", t)
      BY <1>3, <2>2, <2>4
    <3>2. UnitIs("controller", 1, "body", "main")'
      BY <2>2, <3>1 DEF UnitIs
    <3>3. QED  BY <1>3, <2>1, <3>1, <3>2 DEF Joining, Applying
  <2>5. due["main"] # None /\ "main" \in half
    BY <1>2, <1>6, SendShape
  <2>6. QED  BY <2>3, <2>4, <2>5 DEF Applying
<1>7. QED  BY <1>5, <1>6, SendShape

\* The acknowledgement, and jobs that may overtake it.
LEMMA SendKeepsWelcomed ==
    ASSUME WireInv, NEW t \in Threads, Send(t), wstate = "registering", Joining, Welcomed
    PROVE  Joining' /\ Welcomed'
<1>1. Types /\ OwnMessages /\ HalfDue /\ cstate = "open"
  BY DEF WireInv, Joining
<1>2. t \in {"handler", "scheduler"}
  BY SendShape, Places DEF Joining, Welcomed
<1>3. /\ due'["heart"] = None /\ due'["loop"] = None /\ due'["main"] = None
      /\ cstate' = "open" /\ have' = have /\ Fresh("controller")'
  BY <1>1, <1>2, SendShape, Places DEF Joining, Welcomed, Fresh
<1> DEFINE s == stream["worker"]
<1>4. /\ s \in Seq(UnitSet) /\ Len(s) \in Nat
      /\ IsOpen("worker") /\ Other(SideOf(t)) = "worker"
      /\ half \in SUBSET Threads
  BY <1>1, <1>2, Places, LenProperties DEF Types, IsOpen
<1>5. PICK part \in {"size", "body"} :
        /\ Put(t, part)
        /\ part = "size" => t \notin half /\ half' = half \cup {t} /\ due' = due
        /\ part = "body" => t \in half /\ half' = half \ {t} /\ due' = [due EXCEPT ![t] = None]
  BY SendShape
<1> DEFINE u == Unit(part, t)
<1>6. /\ u \in UnitSet /\ u.from = t /\ u.part = part /\ u.msg = due[t]
      /\ stream'["worker"] = Append(s, u)
  BY <1>1, <1>4, <1>5, SendShape, PutEffect
<1> HIDE DEF s, u
<1>7. /\ stream'["worker"] \in Seq(UnitSet) /\ Len(stream'["worker"]) = Len(s) + 1
      /\ stream'["worker"][Len(s) + 1] = u
      /\ \A i \in 1 .. Len(s) : stream'["worker"][i] = s[i]
  BY <1>4, <1>6, AppendProperties
<1>8. CASE Overtaken
  <2>1. Overtaken'
    <3>1. CASE have["worker"] = "scheduler"
      BY <1>3, <3>1 DEF Overtaken
    <3>2. CASE s # <<>> /\ s[1].from = "scheduler"
      <4>1. 1 \in 1 .. Len(s)
        BY <1>4, <3>2, EmptySeq
      <4>2. stream'["worker"][1].from = "scheduler" /\ stream'["worker"] # <<>>
        BY <1>4, <1>7, <3>2, <4>1
      <4>3. QED  BY <4>2 DEF Overtaken
    <3>3. CASE /\ have["worker"] = None /\ Len(s) >= 2
               /\ UnitIs("worker", 1, "size", "handler") /\ s[2].from = "scheduler"
      <4>1. /\ stream'["worker"][1] = s[1] /\ stream'["worker"][2] = s[2]
            /\ Len(stream'["worker"]) >= 2
        BY <1>4, <1>7, <3>3
      <4>2. UnitIs("worker", 1, "size", "handler")'
        BY <3>3, <4>1 DEF UnitIs, s
      <4>3. QED  BY <1>3, <3>3, <4>1, <4>2 DEF Overtaken
    <3>4. QED  BY <1>8, <3>1, <3>2, <3>3 DEF Overtaken, s
  <2>2. QED  BY <1>3, <2>1 DEF Joining, Welcomed
<1>9. CASE Unsent
  <2>1. part = "size" /\ half' = half \cup {t} /\ due' = due
        /\ s = <<>> /\ have'["worker"] = None
    BY <1>2, <1>3, <1>5, <1>9 DEF Unsent, Fresh, s
  <2>2. /\ Len(stream'["worker"]) = 1 /\ stream'["worker"][1] = u /\ stream'["worker"] # <<>>
    BY <1>7, <2>1
  <2>3. CASE t = "handler"
    <3>1. UnitIs("worker", 1, "size", "handler")'
      BY <1>6, <2>1, <2>2, <2>3 DEF UnitIs
    <3>2. HalfSent'
      BY <1>9, <2>1, <2>2, <2>3, <3>1 DEF HalfSent, Unsent
    <3>3. QED  BY <1>3, <3>2 DEF Joining, Welcomed
  <2>4. CASE t = "scheduler"
    <3>1. Overtaken'
      BY <1>6, <2>2, <2>4 DEF Overtaken
    <3>2. QED  BY <1>3, <3>1 DEF Joining, Welcomed
  <2>5. QED  BY <1>2, <2>3, <2>4
<1>10. CASE HalfSent
  <2>1. CASE t = "handler"
    <3>1. part = "body" /\ half' = half \ {t} /\ due'["handler"] = None
          /\ u.msg = "WORKER_REGISTER_ACK" /\ "scheduler" \notin half'
      BY <1>1, <1>5, <1>6, <1>10, <2>1 DEF HalfSent, Types
    <3>2. CASE /\ have["worker"] = None /\ Len(s) = 1
               /\ UnitIs("worker", 1, "size", "handler")
      <4>1. /\ Len(stream'["worker"]) = 2 /\ stream'["worker"][1] = s[1]
            /\ stream'["worker"][2] = u /\ have'["worker"] = None
        BY <1>3, <1>7, <3>2
      <4>2. /\ UnitIs("worker", 1, "size", "handler")'
            /\ UnitIs("worker", 2, "body", "handler")'
        BY <1>6, <2>1, <3>1, <3>2, <4>1 DEF UnitIs, s
      <4>3. Framed(stream'["worker"], 2, "scheduler", None, half')
        BY <3>1, <4>1 DEF Framed, None
      <4>4. Sent'
        BY <3>1, <4>1, <4>2, <4>3 DEF Sent
      <4>5. QED  BY <1>3, <4>4 DEF Joining, Welcomed
    <3>3. CASE have["worker"] = "handler" /\ s = <<>>
      <4>1. /\ Len(stream'["worker"]) = 1
            /\ stream'["worker"][1] = u /\ have'["worker"] = "handler"
        BY <1>3, <1>7, <3>3
      <4>2. UnitIs("worker", 1, "body", "handler")'
        BY <1>6, <2>1, <3>1, <4>1 DEF UnitIs
      <4>3. Framed(stream'["worker"], 1, "scheduler", None, half')
        BY <3>1, <4>1 DEF Framed, None
      <4>4. Sent'
        BY <3>1, <4>1, <4>2, <4>3 DEF Sent
      <4>5. QED  BY <1>3, <4>4 DEF Joining, Welcomed
    <3>4. QED  BY <1>10, <3>2, <3>3 DEF HalfSent, s
  <2>2. CASE t = "scheduler"
    <3>1. part = "size"
      BY <1>5, <1>10, <2>2 DEF HalfSent
    <3>2. CASE /\ have["worker"] = None /\ Len(s) = 1
               /\ UnitIs("worker", 1, "size", "handler")
      <4>1. /\ Len(stream'["worker"]) = 2 /\ stream'["worker"][1] = s[1]
            /\ stream'["worker"][2] = u /\ have'["worker"] = None
        BY <1>3, <1>7, <3>2
      <4>2. UnitIs("worker", 1, "size", "handler")' /\ u.from = "scheduler"
        BY <1>6, <2>2, <3>2, <4>1 DEF UnitIs, s
      <4>3. Overtaken'
        BY <4>1, <4>2 DEF Overtaken
      <4>4. QED  BY <1>3, <4>3 DEF Joining, Welcomed
    <3>3. CASE have["worker"] = "handler" /\ s = <<>>
      <4>1. /\ stream'["worker"] # <<>>
            /\ stream'["worker"][1] = u /\ u.from = "scheduler"
        BY <1>6, <1>7, <2>2, <3>3
      <4>2. Overtaken'
        BY <4>1 DEF Overtaken
      <4>3. QED  BY <1>3, <4>2 DEF Joining, Welcomed
    <3>4. QED  BY <1>10, <3>2, <3>3 DEF HalfSent, s
  <2>3. QED  BY <1>2, <2>1, <2>2
<1>11. CASE Sent
  <2>1. t = "scheduler" /\ due'["handler"] = None /\ None \in Threads \cup {None}
    BY <1>2, <1>11, SendShape, Places DEF Sent
  <2>2. ASSUME NEW b \in {1, 2}, b <= Len(s), Framed(s, b, "scheduler", None, half)
        PROVE  Framed(stream'["worker"], b, "scheduler", None, half')
    <3>1. CASE part = "size"
      <4>1. /\ half' = half \cup {"scheduler"} /\ "scheduler" \notin half /\ b \in Nat
            /\ u.from = "scheduler" /\ u.part = "size" /\ "scheduler" \in Threads
        BY <1>5, <1>6, <2>1, <3>1
      <4>2. Framed(Append(s, u), b, "scheduler", None, half \cup {"scheduler"})
        BY ONLY <1>4, <1>6, <2>1, <2>2, <4>1, FramedSize
      <4>3. QED  BY <1>6, <4>1, <4>2
    <3>2. CASE part = "body"
      <4>1. /\ half' = half \ {"scheduler"} /\ "scheduler" \in half /\ b \in Nat
            /\ u.from = "scheduler" /\ u.part = "body" /\ "scheduler" \in Threads
        BY <1>5, <1>6, <2>1, <3>2
      <4>2. Framed(Append(s, u), b, "scheduler", None, half \ {"scheduler"})
        BY ONLY <1>4, <1>6, <2>1, <2>2, <4>1, FramedBody
      <4>3. QED  BY <1>6, <4>1, <4>2
    <3>3. QED  BY <3>1, <3>2
  <2>3. CASE /\ have["worker"] = None /\ Len(s) >= 2
             /\ UnitIs("worker", 1, "size", "handler")
             /\ UnitIs("worker", 2, "body", "handler")
             /\ s[2].msg = "WORKER_REGISTER_ACK"
             /\ Framed(s, 2, "scheduler", None, half)
    <3>1. /\ Len(stream'["worker"]) >= 2 /\ have'["worker"] = None
          /\ stream'["worker"][1] = s[1] /\ stream'["worker"][2] = s[2]
      BY <1>3, <1>4, <1>7, <2>3
    <3>2. /\ UnitIs("worker", 1, "size", "handler")'
          /\ UnitIs("worker", 2, "body", "handler")'
      BY <2>3, <3>1 DEF UnitIs, s
    <3>3. Framed(stream'["worker"], 2, "scheduler", None, half')
      BY <2>2, <2>3
    <3>4. Sent'
      BY <2>1, <2>3, <3>1, <3>2, <3>3 DEF Sent
    <3>5. QED  BY <1>3, <3>4 DEF Joining, Welcomed
  <2>4. CASE /\ have["worker"] = "handler" /\ Len(s) >= 1
             /\ UnitIs("worker", 1, "body", "handler")
             /\ s[1].msg = "WORKER_REGISTER_ACK"
             /\ Framed(s, 1, "scheduler", None, half)
    <3>1. /\ Len(stream'["worker"]) >= 1 /\ have'["worker"] = "handler"
          /\ stream'["worker"][1] = s[1]
      BY <1>3, <1>4, <1>7, <2>4
    <3>2. UnitIs("worker", 1, "body", "handler")'
      BY <2>4, <3>1 DEF UnitIs, s
    <3>3. Framed(stream'["worker"], 1, "scheduler", None, half')
      BY <2>2, <2>4
    <3>4. Sent'
      BY <2>1, <2>4, <3>1, <3>2, <3>3 DEF Sent
    <3>5. QED  BY <1>3, <3>4 DEF Joining, Welcomed
  <2>5. QED  BY <1>11, <2>3, <2>4 DEF Sent, s
<1>12. QED  BY <1>8, <1>9, <1>10, <1>11 DEF Welcomed

LEMMA SendKeeps ==
    ASSUME WireInv, NEW t \in Threads, Send(t)
    PROVE  WireInv'
<1>1. Types' /\ OwnMessages' /\ HalfDue' /\ Silent' /\ BreaksTakeBoth'
  BY SendKeepsBasics
<1>2. wstate' = wstate /\ due[t] # None
  BY SendShape
<1>3. wstate # "off"
  BY <1>2 DEF WireInv, Unstarted
<1>4. wstate = "registering" => Joining'
  BY SendKeepsApplying, SendKeepsWelcomed DEF WireInv, Joining
<1>5. wstate = "running" => Running'
  BY SendKeepsRunning
<1>6. QED  BY <1>1, <1>2, <1>3, <1>4, <1>5 DEF WireInv

-----------------------------------------------------------------------------
(* What gives the threads something to send, and what ends a process *)

LEMMA SendsOf ==
    /\ Sends("main") = {"WORKER_REGISTER"}
    /\ Sends("loop") = {"JOB_RESULT"}
    /\ Sends("heart") = {"HEARTBEAT"}
    /\ Sends("scheduler") = {"JOB_ASSIGN"}
    /\ Sends("handler") = {"WORKER_REGISTER_ACK", "HEARTBEAT_ACK"}
BY DEF Sends

\* Threads get their own messages to send.
LEMMA DueKeeps ==
    ASSUME OwnMessages, HalfDue, half \subseteq Threads, UNCHANGED <<stream, have, half>>,
           \A t \in Threads : due'[t] = due[t] \/ due'[t] \in Sends(t)
    PROVE  OwnMessages' /\ HalfDue'
<1>1. \A t \in Threads : due'[t] \in Sends(t) \cup {None}
  BY DEF OwnMessages
<1>2. OwnMessages'
  BY <1>1 DEF OwnMessages
<1>3. HalfDue'
  BY Places DEF HalfDue
<1>4. QED  BY <1>2, <1>3

LEMMA RegisterKeeps ==
    ASSUME WireInv, Register
    PROVE  WireInv'
<1>1. /\ Types /\ OwnMessages /\ HalfDue /\ Silent /\ Unstarted
      /\ due \in [Threads -> Messages \cup {None}] /\ half \subseteq Threads
  BY DEF WireInv, Register, Types
<1>2. /\ due'["main"] = "WORKER_REGISTER"
      /\ \A t \in Threads : t # "main" => due'[t] = None
      /\ \A t \in Threads : due[t] = None
      /\ half = {} /\ half' = half /\ wstate' = "registering"
      /\ UNCHANGED <<stream, have, registered, cstate, jobs, beats>>
  BY <1>1, Places DEF Register, Unstarted, HalfDue
<1>3. Types'
  <2>1. due' \in [Threads -> Messages \cup {None}]
    BY <1>1 DEF Register, Messages
  <2>2. QED  BY <1>1, <1>2, <2>1 DEF Types
<1>4. OwnMessages' /\ HalfDue' /\ Silent'
  <2>1. \A t \in Threads : due'[t] = due[t] \/ due'[t] \in Sends(t)
    BY <1>2, SendsOf, Places DEF Unstarted
  <2>2. OwnMessages' /\ HalfDue'
    BY <1>1, <1>2, <2>1, DueKeeps
  <2>3. Silent'
    BY <1>1, <1>2, Places DEF Silent
  <2>4. QED  BY <2>2, <2>3
<1>5. Joining'
  BY <1>1, <1>2, Places DEF Joining, Applying, Unstarted, Fresh, None
<1>6. BreaksTakeBoth'
  BY <1>1, <1>2 DEF BreaksTakeBoth, Unstarted
<1>7. QED  BY <1>2, <1>3, <1>4, <1>5, <1>6 DEF WireInv

LEMMA BeatKeeps ==
    ASSUME WireInv, Beat
    PROVE  WireInv'
<1>1. /\ Types /\ OwnMessages /\ HalfDue /\ Silent /\ BreaksTakeBoth
      /\ due \in [Threads -> Messages \cup {None}] /\ beats \in Nat
  BY DEF WireInv, Types
<1>2. /\ wstate \in {"running", "lost"} /\ due'["heart"] = "HEARTBEAT"
      /\ \A t \in Threads : t # "heart" => due'[t] = due[t]
      /\ beats' = beats + 1
      /\ UNCHANGED <<stream, have, half, wstate, registered, cstate, jobs>>
  BY <1>1, Places DEF Beat
<1>3. Types'
  <2>1. due' \in [Threads -> Messages \cup {None}]
    BY <1>1 DEF Beat, Messages
  <2>2. QED  BY <1>1, <1>2, <2>1 DEF Types
<1>4. OwnMessages' /\ HalfDue'
  <2>1. \A t \in Threads : due'[t] = due[t] \/ due'[t] \in Sends(t)
    BY <1>2, SendsOf, Places
  <2>2. half \subseteq Threads
    BY <1>1 DEF Types
  <2>3. QED  BY <1>1, <1>2, <2>1, <2>2, DueKeeps
<1>5. Silent' /\ BreaksTakeBoth'
  BY <1>1, <1>2, Places DEF Silent, BreaksTakeBoth
<1>6. wstate' = "running" => Running'
  BY <1>1, <1>2, Places DEF WireInv, Running, Sole
<1>7. QED  BY <1>2, <1>3, <1>4, <1>5, <1>6 DEF WireInv

LEMMA AssignKeeps ==
    ASSUME WireInv, Assign
    PROVE  WireInv'
<1>1. /\ Types /\ OwnMessages /\ HalfDue /\ Silent /\ BreaksTakeBoth
      /\ due \in [Threads -> Messages \cup {None}] /\ jobs \in Nat
  BY DEF WireInv, Types
<1>2. /\ registered /\ due'["scheduler"] = "JOB_ASSIGN"
      /\ \A t \in Threads : t # "scheduler" => due'[t] = due[t]
      /\ jobs' = jobs + 1
      /\ UNCHANGED <<stream, have, half, wstate, registered, cstate, beats>>
  BY <1>1, Places DEF Assign
<1>3. Types'
  <2>1. due' \in [Threads -> Messages \cup {None}]
    BY <1>1 DEF Assign, Messages
  <2>2. QED  BY <1>1, <1>2, <2>1 DEF Types
<1>4. OwnMessages' /\ HalfDue'
  <2>1. \A t \in Threads : due'[t] = due[t] \/ due'[t] \in Sends(t)
    BY <1>2, SendsOf, Places
  <2>2. half \subseteq Threads
    BY <1>1 DEF Types
  <2>3. QED  BY <1>1, <1>2, <2>1, <2>2, DueKeeps
<1>5. Silent' /\ BreaksTakeBoth'
  BY <1>1, <1>2, Places DEF Silent, BreaksTakeBoth
<1>6. wstate # "off"
  BY <1>2 DEF WireInv, Unstarted
<1>7. wstate = "registering" => Joining'
  <2>1. wstate = "registering" => Joining /\ Welcomed
    BY <1>2 DEF WireInv, Joining, Applying
  <2>2. Welcomed => Welcomed'
    BY <1>2, Places DEF Welcomed, Unsent, HalfSent, Sent, Overtaken, Fresh, UnitIs
  <2>3. QED  BY <1>2, <2>1, <2>2, Places DEF Joining
<1>8. wstate = "running" => Running'
  BY <1>1, <1>2, Places DEF WireInv, Running, Sole
<1>9. QED  BY <1>2, <1>3, <1>4, <1>5, <1>6, <1>7, <1>8 DEF WireInv

\* What is on its way to a side is dropped.
LEMMA DropKeeps ==
    ASSUME Types, OwnMessages, Silent, NEW side \in Sides,
           stream' = [stream EXCEPT ![side] = <<>>],
           have' = have \/ have' = [have EXCEPT ![side] = None],
           UNCHANGED <<due, half, jobs, beats>>,
           wstate' \in {"off", "registering", "running", "lost", "gone"},
           registered' \in BOOLEAN, cstate' \in {"open", "closed"}
    PROVE  Types' /\ OwnMessages' /\ Silent'
<1>1. /\ stream' \in [Sides -> Seq(UnitSet)]
      /\ have' \in [Sides -> Threads \cup {None}]
      /\ \A sd \in Sides : have'[sd] \in {have[sd], None}
      /\ \A sd \in Sides : stream'[sd] = stream[sd] \/ stream'[sd] = <<>>
  BY EmptySeq DEF Types
<1>2. Types'
  BY <1>1 DEF Types
<1>3. \A sd \in Sides : \A i \in 1 .. Len(stream'[sd]) :
         i \in 1 .. Len(stream[sd]) /\ stream'[sd][i] = stream[sd][i]
  BY <1>1, EmptySeq
<1>4. OwnMessages'
  BY <1>1, <1>3 DEF OwnMessages
<1>5. Silent'
  BY <1>1, <1>3, Places DEF Silent
<1>6. QED  BY <1>2, <1>4, <1>5

LEMMA LeaveKeeps ==
    ASSUME WireInv, Leave
    PROVE  WireInv'
<1>1. /\ Types /\ OwnMessages /\ HalfDue /\ Silent /\ wstate = "lost" /\ wstate' = "gone"
      /\ stream' = [stream EXCEPT !["worker"] = <<>>]
      /\ UNCHANGED <<have, due, half, registered, cstate, jobs, beats>>
  BY DEF WireInv, Leave
<1>2. jobs # 0 /\ beats # 0
  BY <1>1 DEF WireInv, BreaksTakeBoth
<1>3. Types' /\ OwnMessages' /\ Silent'
  BY <1>1, DropKeeps, Places DEF Types
<1>4. HalfDue' /\ BreaksTakeBoth'
  BY <1>1, <1>2 DEF HalfDue, BreaksTakeBoth
<1>5. QED  BY <1>1, <1>3, <1>4 DEF WireInv

\* A reader that gives up breaks nothing that is promised when there has been a
\* job, and a heartbeat unless the worker is registering or gone.
LEMMA WorkerGivesUp ==
    ASSUME WireInv, GiveUp("worker"), jobs # 0,
           wstate = "registering" \/ (wstate = "running" /\ beats # 0)
    PROVE  WireInv'
<1>1. /\ Types /\ OwnMessages /\ HalfDue /\ Silent /\ BreaksTakeBoth
      /\ wstate \in {"off", "registering", "running", "lost", "gone"}
      /\ registered \in BOOLEAN /\ cstate \in {"open", "closed"}
  BY DEF WireInv, Types
<1>2. /\ stream' = [stream EXCEPT !["worker"] = <<>>]
      /\ have' = [have EXCEPT !["worker"] = None]
      /\ UNCHANGED <<due, half, jobs, beats>>
      /\ wstate' = IF wstate = "registering" THEN "gone" ELSE "lost"
      /\ UNCHANGED <<cstate, registered>>
  BY DEF GiveUp
<1>3. Types' /\ OwnMessages' /\ Silent'
  BY <1>1, <1>2, DropKeeps, Places
<1>4. HalfDue'
  BY <1>1, <1>2 DEF HalfDue
<1>5. BreaksTakeBoth'
  BY <1>1, <1>2 DEF BreaksTakeBoth
<1>6. wstate' \notin {"off", "registering"}
  BY <1>1, <1>2
<1>7. wstate' = "running" => Running'
  BY <1>1, <1>2, Places DEF WireInv, Running
<1>8. QED  BY <1>3, <1>4, <1>5, <1>6, <1>7 DEF WireInv

LEMMA ControllerGivesUp ==
    ASSUME WireInv, GiveUp("controller"), jobs # 0,
           wstate = "gone" \/ (wstate \notin {"off", "registering"} /\ beats # 0)
    PROVE  WireInv'
<1>1. /\ Types /\ OwnMessages /\ HalfDue /\ Silent /\ BreaksTakeBoth
      /\ wstate \in {"off", "registering", "running", "lost", "gone"}
      /\ registered \in BOOLEAN /\ cstate \in {"open", "closed"}
  BY DEF WireInv, Types
<1>2. /\ stream' = [stream EXCEPT !["controller"] = <<>>]
      /\ have' = [have EXCEPT !["controller"] = None]
      /\ UNCHANGED <<due, half, jobs, beats>>
      /\ cstate' = "closed" /\ registered' = FALSE /\ wstate' = wstate
  BY DEF GiveUp
<1>3. Types' /\ OwnMessages' /\ Silent'
  BY <1>1, <1>2, DropKeeps, Places
<1>4. HalfDue'
  BY <1>1, <1>2 DEF HalfDue
<1>5. BreaksTakeBoth'
  BY <1>1, <1>2 DEF BreaksTakeBoth
<1>6. wstate' \notin {"off", "registering"}
  BY <1>1, <1>2
<1>7. wstate' = "running" => Running'
  BY <1>1, <1>2, Places DEF WireInv, Running
<1>8. QED  BY <1>3, <1>4, <1>5, <1>6, <1>7 DEF WireInv

LEMMA RecvEndKeeps ==
    ASSUME WireInv, NEW side \in Sides, RecvEnd(side)
    PROVE  WireInv'
<1>1. CASE side = "worker"
  <2>1. Reading("worker") /\ ~IsOpen("controller") /\ GiveUp("worker")
    BY <1>1 DEF RecvEnd, Other
  <2>2. cstate = "closed" /\ wstate \in {"registering", "running"}
    BY <2>1 DEF IsOpen, Reading, WireInv, Types
  <2>3. wstate = "running" /\ jobs # 0 /\ beats # 0
    BY <2>2 DEF WireInv, Joining, BreaksTakeBoth
  <2>4. QED  BY <2>1, <2>3, WorkerGivesUp
<1>2. CASE side = "controller"
  <2>1. ~IsOpen("worker") /\ GiveUp("controller")
    BY <1>2 DEF RecvEnd, Other
  <2>2. wstate = "gone" /\ jobs # 0
    BY <2>1 DEF IsOpen, WireInv, BreaksTakeBoth
  <2>3. wstate = "gone" \/ (wstate \notin {"off", "registering"} /\ beats # 0)
    BY <2>2
  <2>4. QED  BY <2>1, <2>2, <2>3, ControllerGivesUp
<1>3. QED  BY <1>1, <1>2, Places

-----------------------------------------------------------------------------
(* Reading *)

\* The first unit to a side is read.
LEMMA ReadEffect ==
    ASSUME Types, NEW side \in Sides, stream[side] # <<>>,
           stream' = [stream EXCEPT ![side] = Tail(@)],
           NEW x \in {None, stream[side][1].from}, have' = [have EXCEPT ![side] = x]
    PROVE  /\ stream[side] \in Seq(UnitSet) /\ Len(stream[side]) \in Nat \ {0}
           /\ Head(stream[side]) = stream[side][1] /\ stream[side][1] \in UnitSet
           /\ stream'[side] = Tail(stream[side]) /\ have'[side] = x
           /\ Len(stream'[side]) = Len(stream[side]) - 1
           /\ \A i \in 1 .. Len(stream[side]) - 1 : stream'[side][i] = stream[side][i + 1]
           /\ \A sd \in Sides : sd # side => stream'[sd] = stream[sd] /\ have'[sd] = have[sd]
           /\ stream' \in [Sides -> Seq(UnitSet)] /\ have' \in [Sides -> Threads \cup {None}]
<1> DEFINE s == stream[side]
<1>1. s \in Seq(UnitSet) /\ s # <<>>
  BY DEF Types
<1>2. /\ Len(s) \in Nat \ {0} /\ Head(s) = s[1] /\ Tail(s) \in Seq(UnitSet)
      /\ Len(Tail(s)) = Len(s) - 1
      /\ \A i \in 1 .. Len(s) - 1 : Tail(s)[i] = s[i + 1]
  BY <1>1, HeadTailProperties
<1>3. s[1] \in UnitSet /\ s[1].from \in Threads
  <2>1. s[1] \in UnitSet
    BY <1>1, <1>2, ElementOfSeq
  <2>2. QED  BY <2>1 DEF UnitSet
<1> HIDE DEF s
<1>4. stream'[side] = Tail(s) /\ have'[side] = x
  BY DEF Types, s
<1>5. \A sd \in Sides : sd # side => stream'[sd] = stream[sd] /\ have'[sd] = have[sd]
  BY DEF Types
<1>6. stream' \in [Sides -> Seq(UnitSet)]
  BY <1>2 DEF Types, s
<1>7. x \in Threads \cup {None}
  BY <1>3 DEF s
<1>8. have' \in [Sides -> Threads \cup {None}]
  BY <1>7 DEF Types
<1>9. QED  BY <1>1, <1>2, <1>3, <1>4, <1>5, <1>6, <1>8 DEF s

LEMMA ReadKeepsBasics ==
    ASSUME Types, OwnMessages, HalfDue, Silent, NEW side \in Sides, stream[side] # <<>>,
           stream' = [stream EXCEPT ![side] = Tail(@)],
           NEW x \in {None, stream[side][1].from}, have' = [have EXCEPT ![side] = x],
           UNCHANGED <<half, jobs, beats>>,
           due' \in [Threads -> Messages \cup {None}],
           \A t \in Threads : due'[t] = due[t] \/ due'[t] \in Sends(t),
           due'["heart"] = due["heart"], due'["scheduler"] = due["scheduler"],
           wstate' \in {"off", "registering", "running", "lost", "gone"},
           registered' \in BOOLEAN, cstate' = cstate
    PROVE  Types' /\ OwnMessages' /\ HalfDue' /\ Silent'
<1>1. Types'
  BY ReadEffect DEF Types
<1>2. \A sd \in Sides : \A i \in 1 .. Len(stream'[sd]) :
         \E k \in 1 .. Len(stream[sd]) : stream'[sd][i] = stream[sd][k]
  <2>1. ASSUME NEW sd \in Sides, NEW i \in 1 .. Len(stream'[sd])
        PROVE  \E k \in 1 .. Len(stream[sd]) : stream'[sd][i] = stream[sd][k]
    <3>1. CASE sd = side
      <4>1. /\ Len(stream[side]) \in Nat \ {0}
            /\ Len(stream'[side]) = Len(stream[side]) - 1
            /\ \A j \in 1 .. Len(stream[side]) - 1 : stream'[side][j] = stream[side][j + 1]
        BY ReadEffect
      <4>2. i \in 1 .. Len(stream[side]) - 1 /\ i + 1 \in 1 .. Len(stream[side])
        BY <3>1, <4>1
      <4>3. QED  BY <3>1, <4>1, <4>2
    <3>2. CASE sd # side
      BY <3>2, ReadEffect
    <3>3. QED  BY <3>1, <3>2
  <2>2. QED  BY <2>1
<1>3. \A sd \in Sides :
         \/ have'[sd] \in {have[sd], None}
         \/ 1 \in 1 .. Len(stream[sd]) /\ have'[sd] = stream[sd][1].from
  BY ReadEffect
<1>4. OwnMessages'
  <2>1. \A t \in Threads : due'[t] \in Sends(t) \cup {None}
    BY DEF OwnMessages
  <2>2. \A sd \in Sides : have'[sd] \in SendersTo(sd) \cup {None}
    BY <1>3 DEF OwnMessages
  <2>3. ASSUME NEW sd \in Sides, NEW i \in 1 .. Len(stream'[sd])
        PROVE  /\ stream'[sd][i].from \in SendersTo(sd)
               /\ stream'[sd][i].msg \in Sends(stream'[sd][i].from)
    <3>1. PICK k \in 1 .. Len(stream[sd]) : stream'[sd][i] = stream[sd][k]
      BY <1>2
    <3>2. QED  BY <3>1 DEF OwnMessages
  <2>4. QED  BY <2>1, <2>2, <2>3 DEF OwnMessages
<1>5. HalfDue'
  BY Places DEF HalfDue, Types
<1>6. Silent'
  <2>1. ASSUME jobs = 0
        PROVE  /\ have'["worker"] # "scheduler"
               /\ \A i \in 1 .. Len(stream'["worker"]) :
                     stream'["worker"][i].from # "scheduler"
    <3>1. /\ have["worker"] # "scheduler" /\ "worker" \in Sides /\ None # "scheduler"
          /\ \A i \in 1 .. Len(stream["worker"]) : stream["worker"][i].from # "scheduler"
      BY <2>1, Places DEF Silent
    <3>2. have'["worker"] # "scheduler"
      BY <1>3, <3>1
    <3>3. ASSUME NEW i \in 1 .. Len(stream'["worker"])
          PROVE  stream'["worker"][i].from # "scheduler"
      <4>1. PICK k \in 1 .. Len(stream["worker"]) :
               stream'["worker"][i] = stream["worker"][k]
        BY <1>2, <3>1
      <4>2. QED  BY <3>1, <4>1
    <3>4. QED  BY <3>2, <3>3
  <2>2. QED  BY <2>1 DEF Silent
<1>7. QED  BY <1>1, <1>4, <1>5, <1>6

\* The frames of one thread are read in turn.
LEMMA SoleReads ==
    ASSUME Types, NEW side \in Sides, NEW t \in Threads, Sole(side, t), stream[side] # <<>>
    PROVE  /\ stream[side][1].from = t /\ have[side] \in {None, t}
           /\ stream[side][1].part = IF have[side] = t THEN "body" ELSE "size"
           /\ Framed(Tail(stream[side]), 0, t, IF have[side] = t THEN None ELSE t, half)
<1>1. /\ stream[side] \in Seq(UnitSet) /\ have[side] \in {None, t} /\ half \in SUBSET Threads
      /\ Framed(stream[side], 0, t, have[side], half)
  BY DEF Types, Sole
<1>2. QED  BY <1>1, FramedRead

\* What comes next does not fit what was read.
Garbled(side) ==
    IF have[side] = None THEN stream[side][1].part # "size"
    ELSE stream[side][1].part # "body" \/ stream[side][1].from # have[side]

LEMMA SoleNotGarbled ==
    ASSUME Types, NEW side \in Sides, NEW t \in Threads, Sole(side, t), stream[side] # <<>>
    PROVE  ~Garbled(side)
<1>1. None # t
  BY Places
<1>2. QED  BY <1>1, SoleReads DEF Garbled

LEMMA GarbledWorker ==
    ASSUME WireInv, Reading("worker"), stream["worker"] # <<>>, Garbled("worker")
    PROVE  jobs # 0 /\ (wstate = "registering" \/ (wstate = "running" /\ beats # 0))
<1>1. Types /\ Silent /\ wstate \in {"registering", "running"}
  BY DEF WireInv, Reading, Types
<1>2. CASE wstate = "running"
  <2>1. Running
    BY <1>2 DEF WireInv
  <2>2. beats # 0
    BY <1>1, <2>1, SoleNotGarbled, Places DEF Running
  <2>3. jobs # 0
    BY <1>1, <2>1, SoleNotGarbled, Places DEF Running
  <2>4. QED  BY <1>2, <2>2, <2>3
<1>3. CASE wstate = "registering"
  <2>1. Joining /\ due["main"] = None
    BY <1>3 DEF WireInv, Reading
  <2>2. Welcomed
    BY <2>1 DEF Joining, Applying, Fresh
  <2>3. ~Unsent /\ ~HalfSent /\ ~Sent
    BY DEF Unsent, Fresh, HalfSent, Sent, UnitIs, Garbled, None
  <2>4. Overtaken
    BY <2>2, <2>3 DEF Welcomed
  <2>5. Len(stream["worker"]) \in Nat \ {0}
    BY <1>1, Places, EmptySeq, LenProperties DEF Types
  <2>6. jobs # 0
    <3> SUFFICES ASSUME jobs = 0 PROVE FALSE
      OBVIOUS
    <3>1. /\ have["worker"] # "scheduler"
          /\ \A i \in 1 .. Len(stream["worker"]) : stream["worker"][i].from # "scheduler"
      BY <1>1 DEF Silent
    <3>2. stream["worker"][1].from # "scheduler"
      BY <2>5, <3>1
    <3>3. Len(stream["worker"]) >= 2 => stream["worker"][2].from # "scheduler"
      BY <2>5, <3>1
    <3>4. QED  BY <2>4, <3>1, <3>2, <3>3 DEF Overtaken
  <2>7. wstate = "registering" \/ (wstate = "running" /\ beats # 0)
    BY <1>3
  <2>8. QED  BY <2>6, <2>7
<1>4. QED  BY <1>1, <1>2, <1>3

LEMMA GarbledController ==
    ASSUME WireInv, stream["controller"] # <<>>, Garbled("controller")
    PROVE  jobs # 0 /\ (wstate = "gone" \/ (wstate \notin {"off", "registering"} /\ beats # 0))
<1>1. /\ Types /\ BreaksTakeBoth
      /\ wstate \in {"off", "registering", "running", "lost", "gone"}
  BY DEF WireInv, Types
<1>2. CASE wstate = "running"
  <2>1. Running
    BY <1>2 DEF WireInv
  <2>2. beats # 0
    BY <1>1, <2>1, SoleNotGarbled, Places DEF Running
  <2>3. jobs # 0
    BY <1>1, <2>1, SoleNotGarbled, Places DEF Running
  <2>4. QED  BY <1>2, <2>2, <2>3
<1>3. wstate # "off"
  BY DEF WireInv, Unstarted, Fresh
<1>4. CASE wstate = "registering"
  <2>1. Applying
    BY <1>4 DEF WireInv, Joining, Welcomed, Fresh
  <2>2. FALSE
    BY <2>1 DEF Applying, Fresh, UnitIs, Garbled, None
  <2>3. QED  BY <2>2
<1>5. CASE wstate \in {"lost", "gone"}
  BY <1>1, <1>5 DEF BreaksTakeBoth
<1>6. QED  BY <1>1, <1>2, <1>3, <1>4, <1>5

LEMMA RecvOverlapKeeps ==
    ASSUME WireInv, NEW side \in Sides, RecvOverlap(side)
    PROVE  WireInv'
<1>1. /\ Reading(side) /\ GiveUp(side) /\ have[side] # None
      /\ stream[side] # <<>> /\ stream[side] \in Seq(UnitSet)
      /\ Head(stream[side]).part = "size" \/ Head(stream[side]).from # have[side]
  BY DEF RecvOverlap, WireInv, Types
<1>2. Head(stream[side]) = stream[side][1]
  BY <1>1, HeadTailProperties
<1>3. Garbled(side)
  BY <1>1, <1>2 DEF Garbled
<1>4. CASE side = "worker"
  BY <1>1, <1>3, <1>4, GarbledWorker, WorkerGivesUp
<1>5. CASE side = "controller"
  BY <1>1, <1>3, <1>5, GarbledController, ControllerGivesUp
<1>6. QED  BY <1>4, <1>5, Places

\* A size is read where a size is due.
LEMMA SizeKeepsJoining ==
    ASSUME WireInv, NEW side \in Sides, Reading(side), have[side] = None,
           stream[side] # <<>>, stream[side][1].part = "size",
           stream' = [stream EXCEPT ![side] = Tail(@)],
           have' = [have EXCEPT ![side] = stream[side][1].from],
           UNCHANGED <<due, half, wstate, registered, cstate, jobs, beats>>,
           wstate = "registering"
    PROVE  Joining'
<1>1. /\ Types /\ OwnMessages /\ Silent /\ Joining /\ half \in SUBSET Threads
      /\ None \in Threads \cup {None}
  BY DEF WireInv, Types
<1>2. /\ stream[side] \in Seq(UnitSet) /\ Len(stream[side]) \in Nat \ {0}
      /\ stream'[side] = Tail(stream[side]) /\ have'[side] = stream[side][1].from
      /\ Len(stream'[side]) = Len(stream[side]) - 1
      /\ \A i \in 1 .. Len(stream[side]) - 1 : stream'[side][i] = stream[side][i + 1]
      /\ \A sd \in Sides : sd # side => stream'[sd] = stream[sd] /\ have'[sd] = have[sd]
      /\ stream'[side] \in Seq(UnitSet)
  BY <1>1, ReadEffect
<1>3. CASE side = "controller"
  <2>1. Applying /\ due["handler"] = None
    BY <1>1, <1>3 DEF Joining, Welcomed, Fresh, Applying
  <2>2. have["controller"] = None /\ stream["controller"] # <<>>
    BY <1>3
  <2>3. Fresh("worker")'
    BY <1>2, <1>3, <2>1, Places DEF Applying, Fresh
  <2>4. CASE /\ "main" \in half /\ Len(stream["controller"]) = 1
             /\ UnitIs("controller", 1, "size", "main")
    <3>1. have'["controller"] = "main" /\ stream'["controller"] = <<>>
      BY <1>2, <1>3, <2>4, EmptySeq DEF UnitIs
    <3>2. QED  BY <1>1, <2>1, <2>3, <2>4, <3>1 DEF Joining, Applying
  <2>5. CASE /\ due["main"] = None /\ Len(stream["controller"]) = 2
             /\ UnitIs("controller", 1, "size", "main")
             /\ UnitIs("controller", 2, "body", "main")
    <3>1. /\ have'["controller"] = "main" /\ Len(stream'["controller"]) = 1
          /\ stream'["controller"][1] = stream["controller"][2]
      BY <1>2, <1>3, <2>5 DEF UnitIs
    <3>2. UnitIs("controller", 1, "body", "main")'
      BY <2>5, <3>1 DEF UnitIs
    <3>3. QED  BY <1>1, <2>1, <2>3, <2>5, <3>1, <3>2 DEF Joining, Applying
  <2>6. QED  BY <2>1, <2>2, <2>4, <2>5 DEF Applying, Fresh, None
<1>4. CASE side = "worker"
  <2>1. Welcomed
    BY <1>1, <1>4 DEF Joining, Applying, Fresh
  <2>2. have["worker"] = None /\ stream["worker"] # <<>>
    BY <1>4
  <2>3. Fresh("controller")'
    BY <1>2, <1>4, <2>1, Places DEF Welcomed, Fresh
  <2>4. CASE HalfSent
    <3>1. Len(stream["worker"]) = 1 /\ UnitIs("worker", 1, "size", "handler")
      BY <2>2, <2>4 DEF HalfSent, None
    <3>2. have'["worker"] = "handler" /\ stream'["worker"] = <<>>
      BY <1>2, <1>4, <3>1, EmptySeq DEF UnitIs
    <3>3. HalfSent'
      BY <2>4, <3>2 DEF HalfSent
    <3>4. QED  BY <1>1, <2>1, <2>3, <3>3 DEF Joining, Welcomed
  <2>5. CASE Sent
    <3>1. /\ Len(stream["worker"]) >= 2
          /\ UnitIs("worker", 1, "size", "handler")
          /\ UnitIs("worker", 2, "body", "handler")
          /\ stream["worker"][2].msg = "WORKER_REGISTER_ACK"
          /\ Framed(stream["worker"], 2, "scheduler", None, half)
      BY <2>2, <2>5 DEF Sent, None
    <3>2. /\ have'["worker"] = "handler" /\ Len(stream'["worker"]) >= 1
          /\ stream'["worker"][1] = stream["worker"][2]
      BY <1>2, <1>4, <3>1 DEF UnitIs
    <3>3. UnitIs("worker", 1, "body", "handler")'
      BY <3>1, <3>2 DEF UnitIs
    <3>4. Framed(stream'["worker"], 1, "scheduler", None, half)
      <4>1. /\ stream["worker"] \in Seq(UnitSet) /\ 2 \in Nat \ {0} /\ 2 - 1 = 1
            /\ 2 <= Len(stream["worker"]) /\ stream'["worker"] = Tail(stream["worker"])
            /\ "scheduler" \in Threads
        BY <1>2, <1>4, <3>1, Places
      <4>2. Framed(Tail(stream["worker"]), 2 - 1, "scheduler", None, half)
        BY ONLY <1>1, <3>1, <4>1, FramedShift
      <4>3. QED  BY <4>1, <4>2
    <3>5. Sent'
      BY <2>5, <3>1, <3>2, <3>3, <3>4 DEF Sent
    <3>6. QED  BY <1>1, <2>1, <2>3, <3>5 DEF Joining, Welcomed
  <2>6. CASE Overtaken
    <3>1. Overtaken'
      <4>1. CASE stream["worker"][1].from = "scheduler"
        BY <1>2, <1>4, <4>1 DEF Overtaken
      <4>2. CASE Len(stream["worker"]) >= 2 /\ stream["worker"][2].from = "scheduler"
        <5>1. /\ Len(stream'["worker"]) >= 1
              /\ stream'["worker"][1] = stream["worker"][2]
          BY <1>2, <1>4, <4>2
        <5>2. stream'["worker"] # <<>>
          <6>1. Len(<<>>) = 0
            OBVIOUS
          <6>2. QED  BY ONLY <5>1, <6>1
        <5>3. QED  BY <4>2, <5>1, <5>2 DEF Overtaken
      <4>3. QED  BY <2>2, <2>6, <4>1, <4>2 DEF Overtaken, None
    <3>2. QED  BY <1>1, <2>1, <2>3, <3>1 DEF Joining, Welcomed
  <2>7. ~Unsent
    BY <2>2 DEF Unsent, Fresh
  <2>8. QED  BY <2>1, <2>4, <2>5, <2>6, <2>7 DEF Welcomed
<1>5. QED  BY <1>3, <1>4, Places

\* A part of a frame is read by a registered worker, or by its handler.
LEMMA SoleAfterRead ==
    ASSUME Types, NEW side \in Sides, NEW t \in Threads, Sole(side, t), stream[side] # <<>>,
           stream' = [stream EXCEPT ![side] = Tail(@)],
           have' = [have EXCEPT ![side] = IF have[side] = None THEN stream[side][1].from
                                          ELSE None],
           half' = half
    PROVE  Sole(side, t)' /\ \A sd \in Sides, u \in Threads :
                                 sd # side /\ Sole(sd, u) => Sole(sd, u)'
<1> DEFINE x == IF have[side] = None THEN stream[side][1].from ELSE None
<1>1. /\ stream[side][1].from = t /\ have[side] \in {None, t} /\ None # t
      /\ Framed(Tail(stream[side]), 0, t, IF have[side] = t THEN None ELSE t, half)
  BY SoleReads, Places
<1>2. x \in {None, stream[side][1].from} /\ have' = [have EXCEPT ![side] = x]
  OBVIOUS
<1>3. x = IF have[side] = t THEN None ELSE t
  BY <1>1
<1> HIDE DEF x
<1>4. /\ stream'[side] = Tail(stream[side]) /\ have'[side] = x
      /\ \A sd \in Sides : sd # side => stream'[sd] = stream[sd] /\ have'[sd] = have[sd]
  BY <1>2, ReadEffect
<1>5. x \in {None, t} /\ Framed(stream'[side], 0, t, have'[side], half')
  BY <1>1, <1>3, <1>4
<1>6. Sole(side, t)'
  BY <1>4, <1>5 DEF Sole
<1>7. ASSUME NEW sd \in Sides, NEW u \in Threads, sd # side, Sole(sd, u)
      PROVE  Sole(sd, u)'
  BY <1>4, <1>7, SoleUndisturbed
<1>8. QED  BY <1>6, <1>7

LEMMA RecvSizeKeeps ==
    ASSUME WireInv, NEW side \in Sides, RecvSize(side)
    PROVE  WireInv'
<1>1. /\ Reading(side) /\ have[side] = None /\ stream[side] # <<>>
      /\ stream[side] \in Seq(UnitSet)
      /\ Types /\ OwnMessages /\ HalfDue /\ Silent /\ BreaksTakeBoth
  BY DEF RecvSize, WireInv, Types
<1>2. Head(stream[side]) = stream[side][1]
  BY <1>1, HeadTailProperties
<1>3. CASE stream[side][1].part # "size"
  <2>1. GiveUp(side)
    BY <1>2, <1>3 DEF RecvSize
  <2>2. Garbled(side)
    BY <1>1, <1>3 DEF Garbled
  <2>3. CASE side = "worker"
    BY <1>1, <2>1, <2>2, <2>3, GarbledWorker, WorkerGivesUp
  <2>4. CASE side = "controller"
    BY <1>1, <2>1, <2>2, <2>4, GarbledController, ControllerGivesUp
  <2>5. QED  BY <2>3, <2>4, Places
<1>4. CASE stream[side][1].part = "size"
  <2>1. /\ stream' = [stream EXCEPT ![side] = Tail(@)]
        /\ have' = [have EXCEPT ![side] = stream[side][1].from]
        /\ UNCHANGED <<due, half, wstate, registered, cstate, jobs, beats>>
    BY <1>2, <1>4 DEF RecvSize
  <2>2. /\ due' \in [Threads -> Messages \cup {None}]
        /\ wstate' \in {"off", "registering", "running", "lost", "gone"}
        /\ registered' \in BOOLEAN
    BY <1>1, <2>1 DEF Types
  <2>3. Types' /\ OwnMessages' /\ HalfDue' /\ Silent'
    BY <1>1, <2>1, <2>2, ReadKeepsBasics
  <2>4. BreaksTakeBoth'
    BY <1>1, <2>1 DEF BreaksTakeBoth
  <2>5. wstate # "off"
    BY <1>1, Places DEF WireInv, Unstarted, Fresh
  <2>6. wstate = "registering" => Joining'
    BY <1>1, <1>4, <2>1, SizeKeepsJoining
  <2>7. wstate = "running" => Running'
    <3> SUFFICES ASSUME wstate = "running"  PROVE Running'
      OBVIOUS
    <3>1. Running
      BY DEF WireInv
    <3>2. \A t \in Threads : Sole(side, t) =>
             /\ Sole(side, t)'
             /\ \A sd \in Sides, u \in Threads : sd # side /\ Sole(sd, u) => Sole(sd, u)'
      <4>1. have' = [have EXCEPT ![side] = IF have[side] = None THEN stream[side][1].from
                                           ELSE None]
        BY <1>1, <2>1
      <4>2. QED  BY <1>1, <2>1, <4>1, SoleAfterRead
    <3>3. \A t, u \in Threads :
             Sole("worker", t) /\ Sole("controller", u)
             => Sole("worker", t)' /\ Sole("controller", u)'
      BY <3>2, Places
    <3>4. QED  BY <2>1, <3>1, <3>3, Places DEF Running
  <2>8. QED  BY <2>1, <2>3, <2>4, <2>5, <2>6, <2>7 DEF WireInv
<1>5. QED  BY <1>3, <1>4

\* The body of what was sent is read.
LEMMA RecvBodyShape ==
    ASSUME WireInv, NEW side \in Sides, RecvBody(side)
    PROVE  /\ Reading(side) /\ have[side] # None /\ stream[side] # <<>>
           /\ stream[side][1].part = "body" /\ stream[side][1].from = have[side]
           /\ stream[side][1].msg \in Sends(have[side])
           /\ stream' = [stream EXCEPT ![side] = Tail(@)]
           /\ have' = [have EXCEPT ![side] = None]
           /\ UNCHANGED <<half, cstate, jobs, beats>>
           /\ side = "worker" => WorkerTakes(stream[side][1].msg)
           /\ side = "controller" => HandlerTakes(stream[side][1].msg)
           /\ Len(stream[side]) \in Nat \ {0}
<1>1. stream[side] \in Seq(UnitSet) /\ stream[side] # <<>>
  BY DEF RecvBody, WireInv, Types
<1>2. Head(stream[side]) = stream[side][1] /\ Len(stream[side]) \in Nat \ {0}
  BY <1>1, HeadTailProperties, EmptySeq, LenProperties
<1>3. stream[side][1].msg \in Sends(stream[side][1].from)
  BY <1>2 DEF WireInv, OwnMessages
<1>4. QED  BY <1>1, <1>2, <1>3, Places DEF RecvBody

LEMMA BodyKeepsSole ==
    ASSUME WireInv, NEW side \in Sides, RecvBody(side), NEW t \in Threads, Sole(side, t)
    PROVE  /\ have[side] = t /\ Sole(side, t)'
           /\ \A sd \in Sides, u \in Threads : sd # side /\ Sole(sd, u) => Sole(sd, u)'
<1>1. Types
  BY DEF WireInv
<1>2. have' = [have EXCEPT ![side] = IF have[side] = None THEN stream[side][1].from ELSE None]
  BY RecvBodyShape
<1>3. have[side] = t
  BY RecvBodyShape DEF Sole
<1>4. QED  BY <1>1, <1>2, <1>3, RecvBodyShape, SoleAfterRead

LEMMA WorkerBodyKeeps ==
    ASSUME WireInv, RecvBody("worker")
    PROVE  WireInv'
<1> DEFINE msg == stream["worker"][1].msg
<1>1. /\ Types /\ OwnMessages /\ HalfDue /\ Silent /\ BreaksTakeBoth
      /\ "worker" \in Sides /\ "controller" \in Sides
      /\ due \in [Threads -> Messages \cup {None}] /\ half \subseteq Threads
      /\ None \notin Threads /\ registered \in BOOLEAN
  BY Places DEF WireInv, Types
<1>2. /\ Reading("worker") /\ have["worker"] # None /\ stream["worker"] # <<>>
      /\ stream["worker"][1].part = "body" /\ stream["worker"][1].from = have["worker"]
      /\ msg \in Sends(have["worker"])
      /\ stream' = [stream EXCEPT !["worker"] = Tail(@)]
      /\ have' = [have EXCEPT !["worker"] = None]
      /\ UNCHANGED <<half, cstate, jobs, beats>>
      /\ WorkerTakes(msg)
      /\ Len(stream["worker"]) \in Nat \ {0}
  BY <1>1, RecvBodyShape
<1> HIDE DEF msg
<1>3. /\ wstate \in {"registering", "running"}
      /\ wstate = "running" => due["loop"] = None
      /\ wstate = "registering" => due["main"] = None
  BY <1>2 DEF Reading
<1>4. /\ registered' = registered
      /\ wstate' = IF wstate = "registering"
                   THEN IF msg = "WORKER_REGISTER_ACK" THEN "running" ELSE "gone"
                   ELSE wstate
      /\ due' = IF wstate = "running" /\ msg = "JOB_ASSIGN"
                THEN [due EXCEPT !["loop"] = "JOB_RESULT"] ELSE due
  BY <1>2 DEF WorkerTakes
<1>5. /\ due' \in [Threads -> Messages \cup {None}]
      /\ \A t \in Threads : due'[t] = due[t] \/ due'[t] \in Sends(t)
      /\ \A t \in Threads : t # "loop" => due'[t] = due[t]
      /\ (wstate = "running" /\ msg = "JOB_ASSIGN") \/ due'["loop"] = due["loop"]
  BY <1>1, <1>4, Places, SendsOf DEF Messages
<1>6. Types' /\ OwnMessages' /\ HalfDue' /\ Silent'
  <2>1. /\ wstate' \in {"off", "registering", "running", "lost", "gone"}
        /\ due'["heart"] = due["heart"] /\ due'["scheduler"] = due["scheduler"]
    BY <1>3, <1>4, <1>5, Places
  <2>2. QED  BY <1>1, <1>2, <1>4, <1>5, <2>1, ReadKeepsBasics
<1>7. CASE wstate = "running"
  <2>1. Running /\ wstate' = "running"
    BY <1>4, <1>7 DEF WireInv
  <2>2. BreaksTakeBoth'
    BY <1>1, <1>2, <1>7, <2>1 DEF BreaksTakeBoth
  <2>3. beats = 0 => /\ due'["handler"] = None
                     /\ Sole("worker", "scheduler")' /\ Sole("controller", "loop")'
    BY <1>1, <1>5, <2>1, BodyKeepsSole, Places DEF Running
  <2>4. jobs = 0 => /\ have["worker"] = "handler"
                    /\ Sole("worker", "handler")' /\ Sole("controller", "heart")'
    BY <1>1, <2>1, BodyKeepsSole, Places DEF Running
  <2>5. jobs = 0 => due'["loop"] = None
    BY <1>2, <1>3, <1>5, <1>7, <2>4, SendsOf
  <2>6. Running'
    BY <1>2, <1>5, <2>1, <2>3, <2>4, <2>5, Places DEF Running
  <2>7. QED  BY <1>6, <2>1, <2>2, <2>6 DEF WireInv
<1>8. CASE wstate = "registering"
  <2>1. Joining /\ Welcomed
    BY <1>2, <1>8 DEF WireInv, Joining, Applying, Fresh
  <2>2. due' = due
    BY <1>4, <1>8
  <2>3. CASE Overtaken
    <3>1. have["worker"] = "scheduler"
      BY <1>2, <2>3 DEF Overtaken
    <3>2. wstate' = "gone"
      BY <1>2, <1>4, <1>8, <3>1, SendsOf
    <3>3. jobs # 0
      BY <1>1, <3>1 DEF Silent
    <3>4. BreaksTakeBoth'
      BY <1>2, <3>2, <3>3 DEF BreaksTakeBoth
    <3>5. QED  BY <1>6, <3>2, <3>4 DEF WireInv
  <2>4. CASE Sent
    <3>1. /\ msg = "WORKER_REGISTER_ACK" /\ due["handler"] = None
          /\ Framed(stream["worker"], 1, "scheduler", None, half)
      BY <1>2, <2>4 DEF Sent, msg
    <3>2. wstate' = "running"
      BY <1>4, <1>8, <3>1
    <3>3. /\ stream'["worker"] = Tail(stream["worker"]) /\ have'["worker"] = None
          /\ stream'["worker"] \in Seq(UnitSet)
          /\ stream'["controller"] = stream["controller"]
          /\ have'["controller"] = have["controller"]
      BY <1>1, <1>2, HeadTailProperties DEF Types
    <3>4. /\ "handler" \notin half /\ "loop" \notin half /\ "heart" \notin half
          /\ due["main"] = None /\ due["loop"] = None /\ due["heart"] = None
          /\ stream["controller"] = <<>> /\ have["controller"] = None
          /\ cstate = "open"
      BY <1>1, <2>1, <3>1 DEF Joining, Welcomed, Fresh, HalfDue
    <3>5. Sole("worker", "scheduler")'
      <4>1. /\ stream["worker"] \in Seq(UnitSet) /\ 1 \in Nat \ {0} /\ 1 - 1 = 0
            /\ 1 <= Len(stream["worker"]) /\ "scheduler" \in Threads
            /\ None \in Threads \cup {None} /\ half \in SUBSET Threads
        BY <1>1, <1>2, Places DEF Types
      <4>2. Framed(Tail(stream["worker"]), 1 - 1, "scheduler", None, half)
        BY ONLY <3>1, <4>1, FramedShift
      <4>3. QED  BY <1>2, <3>3, <4>1, <4>2 DEF Sole
    <3>6. \A t \in {"loop", "heart"} : Sole("controller", t)'
      BY <1>2, <3>3, <3>4, EmptySeq, Places DEF Sole, Framed
    <3>7. jobs = 0 => Sole("worker", "handler")'
      <4> SUFFICES ASSUME jobs = 0  PROVE Sole("worker", "handler")'
        OBVIOUS
      <4>1. \A i \in 1 .. Len(stream'["worker"]) : stream'["worker"][i].from # "scheduler"
        BY <1>2, <1>6 DEF Silent
      <4>2. \A i \in 1 .. Len(stream'["worker"]) : stream'["worker"][i].from = "scheduler"
        BY <3>5 DEF Sole, Framed
      <4>3. Len(stream'["worker"]) \in Nat
        BY <3>3, LenProperties
      <4>4. Len(stream'["worker"]) = 0
        <5>1. 1 \notin 1 .. Len(stream'["worker"])
          BY <4>1, <4>2
        <5>2. QED  BY <4>3, <5>1
      <4>5. "handler" \notin half' /\ None # "handler"
        BY <1>2, <3>4, Places
      <4>6. QED  BY <3>3, <4>4, <4>5 DEF Sole, Framed
    <3>8. Running'
      BY <1>2, <2>2, <3>1, <3>4, <3>5, <3>6, <3>7 DEF Running
    <3>9. BreaksTakeBoth'
      BY <1>2, <3>2, <3>4 DEF BreaksTakeBoth
    <3>10. QED  BY <1>6, <3>2, <3>8, <3>9 DEF WireInv
  <2>5. ~Unsent /\ ~HalfSent
    BY <1>2 DEF Unsent, HalfSent, Fresh
  <2>6. QED  BY <2>1, <2>3, <2>4, <2>5 DEF Welcomed
<1>9. QED  BY <1>3, <1>7, <1>8

LEMMA ControllerBodyKeeps ==
    ASSUME WireInv, RecvBody("controller")
    PROVE  WireInv'
<1> DEFINE msg == stream["controller"][1].msg
<1>1. /\ Types /\ OwnMessages /\ HalfDue /\ Silent /\ BreaksTakeBoth
      /\ "worker" \in Sides /\ "controller" \in Sides
      /\ due \in [Threads -> Messages \cup {None}] /\ half \subseteq Threads
      /\ None \notin Threads /\ registered \in BOOLEAN
      /\ wstate \in {"off", "registering", "running", "lost", "gone"}
  BY Places DEF WireInv, Types
<1>2. /\ Reading("controller") /\ have["controller"] # None /\ stream["controller"] # <<>>
      /\ stream["controller"][1].part = "body"
      /\ stream["controller"][1].from = have["controller"]
      /\ msg \in Sends(have["controller"])
      /\ stream' = [stream EXCEPT !["controller"] = Tail(@)]
      /\ have' = [have EXCEPT !["controller"] = None]
      /\ UNCHANGED <<half, cstate, jobs, beats>>
      /\ HandlerTakes(msg)
      /\ Len(stream["controller"]) \in Nat \ {0}
  BY <1>1, RecvBodyShape
<1> HIDE DEF msg
<1>3. due["handler"] = None /\ cstate = "open" /\ "handler" \notin half
  BY <1>1, <1>2 DEF Reading, HalfDue
<1>4. /\ registered' = (registered \/ msg = "WORKER_REGISTER")
      /\ wstate' = wstate
      /\ msg = "WORKER_REGISTER" => due' = [due EXCEPT !["handler"] = "WORKER_REGISTER_ACK"]
      /\ msg = "HEARTBEAT" => due' = [due EXCEPT !["handler"] = "HEARTBEAT_ACK"]
      /\ msg \notin {"WORKER_REGISTER", "HEARTBEAT"} => due' = due
  BY <1>2 DEF HandlerTakes
<1>5. /\ due' \in [Threads -> Messages \cup {None}]
      /\ \A t \in Threads : due'[t] = due[t] \/ due'[t] \in Sends(t)
      /\ \A t \in Threads : t # "handler" => due'[t] = due[t]
  BY <1>1, <1>4, Places, SendsOf DEF Messages
<1>6. Types' /\ OwnMessages' /\ HalfDue' /\ Silent'
  <2>1. /\ registered' \in BOOLEAN
        /\ due'["heart"] = due["heart"] /\ due'["scheduler"] = due["scheduler"]
    BY <1>1, <1>4, <1>5, Places
  <2>2. QED  BY <1>1, <1>2, <1>4, <1>5, <2>1, ReadKeepsBasics
<1>7. BreaksTakeBoth'
  BY <1>1, <1>2, <1>4 DEF BreaksTakeBoth
<1>8. wstate # "off"
  BY <1>2 DEF WireInv, Unstarted, Fresh
<1>9. wstate = "running" => Running'
  <2> SUFFICES ASSUME wstate = "running"  PROVE Running'
    OBVIOUS
  <2>1. Running
    BY DEF WireInv
  <2>2. beats = 0 => /\ have["controller"] = "loop"
                     /\ Sole("worker", "scheduler")' /\ Sole("controller", "loop")'
    BY <1>1, <2>1, BodyKeepsSole, Places DEF Running
  <2>3. beats = 0 => due'["handler"] = None
    BY <1>2, <1>3, <1>4, <2>2, SendsOf
  <2>4. jobs = 0 => Sole("worker", "handler")' /\ Sole("controller", "heart")'
    BY <1>1, <2>1, BodyKeepsSole, Places DEF Running
  <2>5. QED  BY <1>2, <1>5, <2>1, <2>2, <2>3, <2>4, Places DEF Running
<1>10. wstate = "registering" => Joining'
  <2> SUFFICES ASSUME wstate = "registering"  PROVE Joining'
    OBVIOUS
  <2>1. Joining /\ Applying
    BY <1>2 DEF WireInv, Joining, Welcomed, Fresh
  <2>2. /\ have["controller"] = "main" /\ Len(stream["controller"]) = 1
        /\ due["main"] = None /\ due["scheduler"] = None
    BY <1>2, <2>1, EmptySeq DEF Applying, Fresh
  <2>3. msg = "WORKER_REGISTER"
    BY <1>2, <2>2, SendsOf
  <2>4. due'["handler"] = "WORKER_REGISTER_ACK"
    BY <1>1, <1>4, <2>3, Places
  <2>5. /\ stream'["controller"] = <<>> /\ have'["controller"] = None
        /\ stream'["worker"] = stream["worker"] /\ have'["worker"] = have["worker"]
    <3>1. /\ stream["controller"] \in Seq(UnitSet)
          /\ stream'["controller"] = Tail(stream["controller"])
          /\ have'["controller"] = None
          /\ stream'["worker"] = stream["worker"] /\ have'["worker"] = have["worker"]
      BY <1>1, <1>2 DEF Types
    <3>2. Tail(stream["controller"]) \in Seq(UnitSet) /\ Len(Tail(stream["controller"])) = 0
      BY <1>2, <2>2, <3>1, HeadTailProperties
    <3>3. QED  BY <3>1, <3>2, EmptySeq
  <2>6. "scheduler" \notin half
    BY <1>1, <2>2 DEF HalfDue
  <2>7. Unsent'
    BY <1>2, <1>3, <2>1, <2>4, <2>5, <2>6 DEF Unsent, Applying, Fresh
  <2>8. QED  BY <1>2, <1>5, <2>1, <2>2, <2>5, <2>7, Places DEF Joining, Welcomed, Fresh
<1>11. QED  BY <1>4, <1>6, <1>7, <1>8, <1>9, <1>10 DEF WireInv

-----------------------------------------------------------------------------
(* The theorem *)

LEMMA InitWire == Init => WireInv
<1> SUFFICES ASSUME Init  PROVE WireInv
  OBVIOUS
<1>1. /\ \A side \in Sides : stream[side] = <<>> /\ have[side] = None
      /\ due = [t \in Threads |-> None]
      /\ half = {} /\ wstate = "off" /\ registered = FALSE /\ cstate = "open"
      /\ jobs = 0 /\ beats = 0
  BY DEF Init
<1>2. Types
  <2>1. <<>> \in Seq(UnitSet) /\ None \in Threads \cup {None} /\ None \in Messages \cup {None}
    OBVIOUS
  <2>2. /\ stream \in [Sides -> Seq(UnitSet)] /\ have \in [Sides -> Threads \cup {None}]
        /\ due \in [Threads -> Messages \cup {None}]
    BY <2>1 DEF Init
  <2>3. QED  BY <1>1, <2>2 DEF Types
<1>3. OwnMessages /\ HalfDue /\ Silent
  BY <1>1, Places, EmptySeq DEF OwnMessages, HalfDue, Silent
<1>4. Unstarted /\ BreaksTakeBoth
  BY <1>1, Places DEF Unstarted, Fresh, BreaksTakeBoth
<1>5. QED  BY <1>1, <1>2, <1>3, <1>4 DEF WireInv

LEMMA NextWire == WireInv /\ [Next]_vars => WireInv'
<1> SUFFICES ASSUME WireInv, [Next]_vars  PROVE WireInv'
  OBVIOUS
<1>1. CASE Register
  BY <1>1, RegisterKeeps
<1>2. CASE Beat
  BY <1>2, BeatKeeps
<1>3. CASE Assign
  BY <1>3, AssignKeeps
<1>4. CASE Leave
  BY <1>4, LeaveKeeps
<1>5. ASSUME NEW t \in Threads, Send(t)  PROVE WireInv'
  BY <1>5, SendKeeps
<1>6. ASSUME NEW side \in Sides, Recv(side)  PROVE WireInv'
  <2>1. CASE RecvSize(side)
    BY <2>1, RecvSizeKeeps
  <2>2. CASE RecvBody(side)
    BY <2>2, WorkerBodyKeeps, ControllerBodyKeeps, Places
  <2>3. CASE RecvOverlap(side)
    BY <2>3, RecvOverlapKeeps
  <2>4. CASE RecvEnd(side)
    BY <2>4, RecvEndKeeps
  <2>5. QED  BY <1>6, <2>1, <2>2, <2>3, <2>4 DEF Recv
<1>7. CASE UNCHANGED vars
  BY <1>7 DEF vars, WireInv, Types, OwnMessages, HalfDue, Silent, Unstarted, Joining, Running,
              BreaksTakeBoth, Applying, Welcomed, Unsent, HalfSent, Sent, Overtaken, Fresh,
              Sole, UnitIs
<1>8. QED  BY <1>1, <1>2, <1>3, <1>4, <1>5, <1>6, <1>7 DEF Next

\* However many jobs are sent and however send() calls mix, a connection that has
\* carried no job never ends because of what was sent on it, and one that has
\* carried no heartbeat not after the worker has registered.
THEOREM BothToBreak == Spec => []BreaksTakeBoth
<1>1. WireInv => BreaksTakeBoth
  BY DEF WireInv
<1>2. QED  BY InitWire, NextWire, <1>1, PTL DEF Spec
-----------------------------------------------------------------------------
(* The bodies in a stream *)

IsBody(u, t) == u.part = "body" /\ u.from = t

\* g[i] are the bodies of t among the first i units of s.
Collects(g, s, t) ==
    /\ g \in [0 .. Len(s) -> Seq(Messages)]
    /\ g[0] = <<>>
    /\ \A i \in 1 .. Len(s) :
          g[i] = IF IsBody(s[i], t) THEN Append(g[i - 1], s[i].msg) ELSE g[i - 1]

LEMMA CollectorExists ==
    ASSUME NEW s \in Seq(UnitSet), NEW t
    PROVE  \E g : Collects(g, s, t)
<1> DEFINE S == Seq(Messages)
           step == [i \in 1 .. Len(s) |->
                       [a \in S |-> IF IsBody(s[i], t) THEN Append(a, s[i].msg) ELSE a]]
<1>1. Len(s) \in Nat /\ \A i \in 1 .. Len(s) : s[i].msg \in Messages
  <2>1. \A i \in 1 .. Len(s) : s[i] \in UnitSet
    BY ElementOfSeq
  <2>2. QED  BY <2>1, LenProperties DEF UnitSet
<1>2. <<>> \in S
  OBVIOUS
<1>3. step \in [1 .. Len(s) -> [S -> S]]
  <2>1. ASSUME NEW i \in 1 .. Len(s), NEW a \in S
        PROVE  (IF IsBody(s[i], t) THEN Append(a, s[i].msg) ELSE a) \in S
    BY <1>1
  <2>2. QED  BY <2>1
<1> HIDE DEF S, step
<1>4. PICK g \in [0 .. Len(s) -> S] : Unfolds(g, Len(s), <<>>, step)
  BY <1>1, <1>2, <1>3, RecursionExists
<1>5. g[0] = <<>> /\ \A i \in 1 .. Len(s) : g[i] = step[i][g[i - 1]]
  BY <1>4 DEF Unfolds
<1>6. ASSUME NEW i \in 1 .. Len(s)
      PROVE  g[i] = IF IsBody(s[i], t) THEN Append(g[i - 1], s[i].msg) ELSE g[i - 1]
  <2>1. g[i - 1] \in S
    BY <1>1, <1>4
  <2>2. step[i][g[i - 1]] = IF IsBody(s[i], t) THEN Append(g[i - 1], s[i].msg) ELSE g[i - 1]
    BY <2>1 DEF step
  <2>3. QED  BY <1>5, <2>2
<1>7. QED  BY <1>4, <1>5, <1>6 DEF Collects, S

LEMMA BodiesCollected ==
    ASSUME NEW s \in Seq(UnitSet), NEW t
    PROVE  \E g : Collects(g, s, t) /\ Bodies(s, t) = g[Len(s)]
<1> DEFINE body(g) == [i \in 0 .. Len(s) |->
                         IF i = 0 THEN <<>>
                         ELSE IF s[i].part = "body" /\ s[i].from = t
                              THEN Append(g[i - 1], s[i].msg)
                              ELSE g[i - 1]]
           f == CHOOSE g : g = body(g)
<1>1. Len(s) \in Nat
  OBVIOUS
<1>2. ASSUME NEW g, Collects(g, s, t)
      PROVE  g = body(g)
  <2>1. ASSUME NEW i \in 0 .. Len(s)
        PROVE  g[i] = body(g)[i]
    <3>1. CASE i = 0
      BY <1>2, <3>1 DEF Collects
    <3>2. CASE i # 0
      <4>1. i \in 1 .. Len(s)
        BY <1>1, <3>2
      <4>2. QED  BY <1>2, <3>2, <4>1 DEF Collects, IsBody
    <3>3. QED  BY <3>1, <3>2
  <2>2. g = [i \in 0 .. Len(s) |-> g[i]]
    BY <1>2 DEF Collects
  <2>3. QED  BY <2>1, <2>2
<1>3. \E g : g = body(g)
  BY <1>2, CollectorExists
<1>4. f = body(f)
  BY <1>3
<1>5. Bodies(s, t) = f[Len(s)]
  BY DEF Bodies
<1>6. /\ DOMAIN f = 0 .. Len(s)
      /\ \A i \in 0 .. Len(s) : f[i] = body(f)[i]
  BY <1>4
<1> HIDE DEF f
<1>7. f[0] = <<>>
  BY <1>1, <1>6
<1>8. ASSUME NEW i \in 1 .. Len(s)
      PROVE  f[i] = IF IsBody(s[i], t) THEN Append(f[i - 1], s[i].msg) ELSE f[i - 1]
  <2>1. i \in 0 .. Len(s) /\ i # 0
    BY <1>1
  <2>2. QED  BY <1>6, <2>1 DEF IsBody
<1> DEFINE P == {i \in 0 .. Len(s) : f[i] \in Seq(Messages)}
<1>9. 0 \in P
  <2>1. 0 \in 0 .. Len(s) /\ <<>> \in Seq(Messages)
    BY <1>1
  <2>2. QED  BY <1>7, <2>1
<1>10. ASSUME NEW i \in 0 .. Len(s), i \in P, i < Len(s)
       PROVE  i + 1 \in P
  <2>1. i + 1 \in 1 .. Len(s) /\ (i + 1) - 1 = i
    BY <1>1, <1>10
  <2>2. s[i + 1] \in UnitSet
    BY <2>1, ElementOfSeq
  <2>3. s[i + 1].msg \in Messages
    BY <2>2 DEF UnitSet
  <2>4. f[i + 1] = IF IsBody(s[i + 1], t) THEN Append(f[i], s[i + 1].msg) ELSE f[i]
    BY <1>8, <2>1
  <2>5. f[i + 1] \in Seq(Messages)
    BY <1>10, <2>3, <2>4
  <2>6. QED  BY <2>1, <2>5
<1> HIDE DEF P
<1>11. 0 .. Len(s) \subseteq P
  BY <1>1, <1>9, <1>10, BoundedInduction
<1>12. f = [i \in 0 .. Len(s) |-> f[i]]
  BY <1>4 DEF f
<1>13. \A i \in 0 .. Len(s) : f[i] \in Seq(Messages)
  BY <1>11 DEF P
<1>14. Collects(f, s, t)
  BY <1>7, <1>8, <1>12, <1>13 DEF Collects
<1>15. QED  BY <1>5, <1>14

LEMMA CollectedOnce ==
    ASSUME NEW s \in Seq(UnitSet), NEW t, NEW g, NEW h, NEW m \in 0 .. Len(s),
           Collects(g, s, t), h[0] = <<>>,
           \A i \in 1 .. m :
              h[i] = IF IsBody(s[i], t) THEN Append(h[i - 1], s[i].msg) ELSE h[i - 1]
    PROVE  \A i \in 0 .. m : h[i] = g[i]
<1> DEFINE P == {i \in 0 .. m : h[i] = g[i]}
<1>0. Len(s) \in Nat /\ m \in Nat
  OBVIOUS
<1>1. 0 \in P
  BY <1>0 DEF Collects
<1>2. ASSUME NEW i \in 0 .. m, i \in P, i < m
      PROVE  i + 1 \in P
  <2>1. i + 1 \in 1 .. m /\ i + 1 \in 1 .. Len(s) /\ (i + 1) - 1 = i
    BY <1>0, <1>2
  <2>2. g[i + 1] = IF IsBody(s[i + 1], t) THEN Append(g[i], s[i + 1].msg) ELSE g[i]
    BY <2>1 DEF Collects
  <2>3. h[i + 1] = IF IsBody(s[i + 1], t) THEN Append(h[i], s[i + 1].msg) ELSE h[i]
    BY <2>1
  <2>4. QED  BY <1>2, <2>1, <2>2, <2>3
<1> HIDE DEF P
<1>3. 0 .. m \subseteq P
  BY <1>0, <1>1, <1>2, BoundedInduction
<1>4. QED  BY <1>3 DEF P

LEMMA AppendConcat ==
    \A a, b \in Seq(Messages), e \in Messages : Append(a \o b, e) = a \o Append(b, e)
OBVIOUS

LEMMA BodiesType ==
    ASSUME NEW s \in Seq(UnitSet), NEW t
    PROVE  Bodies(s, t) \in Seq(Messages)
<1>1. PICK g : Collects(g, s, t) /\ Bodies(s, t) = g[Len(s)]
  BY BodiesCollected
<1>2. Len(s) \in 0 .. Len(s)
  OBVIOUS
<1>3. QED  BY <1>1, <1>2 DEF Collects

LEMMA NoBodies == \A t : Bodies(<<>>, t) = <<>>
<1> SUFFICES ASSUME NEW t
             PROVE  Bodies(<<>>, t) = <<>>
  OBVIOUS
<1>1. <<>> \in Seq(UnitSet) /\ Len(<<>>) = 0
  OBVIOUS
<1>2. PICK g : Collects(g, <<>>, t) /\ Bodies(<<>>, t) = g[0]
  BY <1>1, BodiesCollected
<1>3. QED  BY <1>2 DEF Collects

\* A unit is sent.
LEMMA BodiesAppended ==
    ASSUME NEW s \in Seq(UnitSet), NEW u \in UnitSet, NEW t
    PROVE  Bodies(Append(s, u), t) =
               IF IsBody(u, t) THEN Append(Bodies(s, t), u.msg) ELSE Bodies(s, t)
<1> DEFINE r == Append(s, u)
<1>1. /\ r \in Seq(UnitSet) /\ Len(r) = Len(s) + 1 /\ r[Len(s) + 1] = u
      /\ \A i \in 1 .. Len(s) : r[i] = s[i]
  BY AppendProperties
<1>2. Len(s) \in Nat
  OBVIOUS
<1> HIDE DEF r
<1>3. PICK g : Collects(g, s, t) /\ Bodies(s, t) = g[Len(s)]
  BY BodiesCollected
<1>4. PICK h : Collects(h, r, t) /\ Bodies(r, t) = h[Len(r)]
  BY <1>1, BodiesCollected
<1>5. h[0] = <<>> /\ \A i \in 1 .. Len(s) :
         h[i] = IF IsBody(s[i], t) THEN Append(h[i - 1], s[i].msg) ELSE h[i - 1]
  BY <1>1, <1>2, <1>4 DEF Collects
<1>6. Len(s) \in 0 .. Len(s)
  BY <1>2
<1>7. \A i \in 0 .. Len(s) : h[i] = g[i]
  BY <1>3, <1>5, <1>6, CollectedOnce
<1>8. h[Len(s)] = Bodies(s, t)
  BY <1>3, <1>6, <1>7
<1>9. Len(s) + 1 \in 1 .. Len(r) /\ (Len(s) + 1) - 1 = Len(s)
  BY <1>1, <1>2
<1>10. h[Len(s) + 1] = IF IsBody(u, t) THEN Append(h[Len(s)], u.msg) ELSE h[Len(s)]
  BY <1>1, <1>4, <1>9 DEF Collects
<1>11. QED  BY <1>1, <1>4, <1>8, <1>10 DEF r

\* The first unit is read.
LEMMA BodiesRead ==
    ASSUME NEW s \in Seq(UnitSet), s # <<>>, NEW t
    PROVE  Bodies(s, t) =
               IF IsBody(Head(s), t) THEN <<Head(s).msg>> \o Bodies(Tail(s), t)
               ELSE Bodies(Tail(s), t)
<1> DEFINE r == Tail(s)
           first == IF IsBody(Head(s), t) THEN <<Head(s).msg>> ELSE <<>>
<1>1. /\ r \in Seq(UnitSet) /\ Len(s) \in Nat \ {0} /\ Len(r) = Len(s) - 1
      /\ \A i \in 1 .. Len(r) : r[i] = s[i + 1]
      /\ Head(s) = s[1] /\ s[1] \in UnitSet
  BY HeadTailProperties, ElementOfSeq
<1>2. first \in Seq(Messages) /\ first \o <<>> = first
  BY <1>1 DEF UnitSet
<1>3. Len(r) \in Nat
  BY <1>1
<1>4. first = IF IsBody(s[1], t) THEN <<s[1].msg>> ELSE <<>>
  BY <1>1
<1> HIDE DEF r, first
<1>5. PICK g : Collects(g, s, t) /\ Bodies(s, t) = g[Len(s)]
  BY BodiesCollected
<1>6. PICK h : Collects(h, r, t) /\ Bodies(r, t) = h[Len(r)]
  BY <1>1, BodiesCollected
<1> DEFINE P == {i \in 0 .. Len(r) : g[i + 1] = first \o h[i]}
<1>7. 0 \in P
  <2>1. 1 \in 1 .. Len(s) /\ 1 - 1 = 0 /\ 0 + 1 = 1 /\ 0 \in 0 .. Len(r)
    BY <1>1, <1>3
  <2>2. g[0] = <<>> /\ h[0] = <<>>
    BY <1>5, <1>6 DEF Collects
  <2>3. g[1] = IF IsBody(s[1], t) THEN Append(g[0], s[1].msg) ELSE g[0]
    BY <1>5, <2>1 DEF Collects
  <2>4. g[1] = first
    BY <1>4, <2>2, <2>3
  <2>5. QED  BY <1>2, <2>1, <2>2, <2>4
<1>8. ASSUME NEW i \in 0 .. Len(r), i \in P, i < Len(r)
      PROVE  i + 1 \in P
  <2>1. /\ i + 1 \in 1 .. Len(r) /\ (i + 1) - 1 = i
        /\ i + 2 \in 1 .. Len(s) /\ (i + 2) - 1 = i + 1 /\ (i + 1) + 1 = i + 2
    BY <1>1, <1>8
  <2>2. r[i + 1] = s[i + 2] /\ r[i + 1] \in UnitSet
    BY <1>1, <2>1, ElementOfSeq
  <2>3. h[i + 1] = IF IsBody(s[i + 2], t) THEN Append(h[i], s[i + 2].msg) ELSE h[i]
    BY <1>6, <2>1, <2>2 DEF Collects
  <2>4. g[i + 2] = IF IsBody(s[i + 2], t) THEN Append(g[i + 1], s[i + 2].msg) ELSE g[i + 1]
    BY <1>5, <2>1 DEF Collects
  <2>5. h[i] \in Seq(Messages) /\ s[i + 2].msg \in Messages
    BY <1>6, <2>2 DEF Collects, UnitSet
  <2>6. Append(first \o h[i], s[i + 2].msg) = first \o Append(h[i], s[i + 2].msg)
    BY <1>2, <2>5, AppendConcat
  <2>7. g[i + 2] = first \o h[i + 1]
    BY <1>8, <2>3, <2>4, <2>6
  <2>8. i + 1 \in 0 .. Len(r) /\ g[(i + 1) + 1] = first \o h[i + 1]
    BY <1>3, <2>1, <2>7
  <2>9. QED  BY <2>8
<1> HIDE DEF P
<1>9. 0 .. Len(r) \subseteq P
  BY <1>3, <1>7, <1>8, BoundedInduction
<1>10. Len(r) \in P /\ Len(r) + 1 = Len(s)
  BY <1>1, <1>9, <1>3
<1>11. Bodies(s, t) = first \o Bodies(r, t)
  BY <1>5, <1>6, <1>10 DEF P
<1>12. <<>> \o Bodies(r, t) = Bodies(r, t)
  BY <1>1, BodiesType
<1>13. QED  BY <1>1, <1>11, <1>12, <1>4 DEF r

-----------------------------------------------------------------------------
(* The channels *)

\* The message that a side has read last.
GotType == got \in [Sides -> {Nothing} \cup [from : Threads, msg : Messages]]

\* What a step is to the channel to a side: nothing, a message more of one thread,
\* the first message of one taken, with the reader going on or not, or its end.
Unmoved(side) ==
    /\ Reads(side)' = Reads(side)
    /\ got'[side] = got[side]
    /\ \A t \in SendersTo(side) : OnTheirWay(side, t)' = OnTheirWay(side, t)
Longer(side, t) ==
    /\ Reads(side) /\ Reads(side)'
    /\ got'[side] = got[side]
    /\ \E m \in Messages : OnTheirWay(side, t)' = Append(OnTheirWay(side, t), m)
    /\ \A s \in SendersTo(side) \ {t} : OnTheirWay(side, s)' = OnTheirWay(side, s)
Shorter(side, t) ==
    /\ Reads(side)
    /\ OnTheirWay(side, t) # <<>>
    /\ got'[side] = [from |-> t, msg |-> Head(OnTheirWay(side, t))]
    /\ Reads(side)' =>
          /\ OnTheirWay(side, t)' = Tail(OnTheirWay(side, t))
          /\ \A s \in SendersTo(side) \ {t} : OnTheirWay(side, s)' = OnTheirWay(side, s)
Ended(side) == Reads(side) /\ ~Reads(side)' /\ got'[side] = got[side]

ChannelStep(side) ==
    \/ Unmoved(side)
    \/ \E t \in SendersTo(side) : Longer(side, t) \/ Shorter(side, t)
    \/ Ended(side)

LEMMA Quiet ==
    ASSUME NEW side \in Sides, stream'[side] = stream[side] \/ ~Reads(side),
           Reads(side)' = Reads(side), got'[side] = got[side]
    PROVE  ChannelStep(side)
BY DEF ChannelStep, Unmoved, OnTheirWay

LEMMA SendToChannel ==
    ASSUME WireInv, NEW t \in Threads, Send(t), NEW side \in Sides
    PROVE  ChannelStep(side)
<1>1. /\ Types /\ OwnMessages /\ due[t] # None /\ due[t] \in Messages
      /\ UNCHANGED <<got, wstate, cstate>>
  BY DEF Send, SendSize, SendBody, WireInv, HalfDue, Types
<1>2. Reads(side)' = Reads(side) /\ got'[side] = got[side]
  BY <1>1 DEF Reads
<1>3. PICK part \in {"size", "body"} : Put(t, part)
  BY DEF Send, SendSize, SendBody
<1> DEFINE u == Unit(part, t)
<1>4. /\ u \in UnitSet /\ u.from = t /\ u.part = part /\ u.msg = due[t]
      /\ side # Other(SideOf(t)) => stream'[side] = stream[side]
      /\ IsOpen(Other(SideOf(t))) =>
            stream'[Other(SideOf(t))] = Append(stream[Other(SideOf(t))], u)
  BY <1>1, <1>3, PutEffect
<1> HIDE DEF u
<1>5. CASE side # Other(SideOf(t)) \/ ~Reads(side)
  BY <1>2, <1>4, <1>5, Quiet
<1>6. CASE side = Other(SideOf(t)) /\ Reads(side)
  <2>1. IsOpen(side)
    BY <1>6, Places DEF Reads, IsOpen
  <2>2. stream'[side] = Append(stream[side], u) /\ stream[side] \in Seq(UnitSet)
    BY <1>1, <1>4, <1>6, <2>1 DEF Types
  <2>3. \A s : Bodies(stream'[side], s) =
                  IF IsBody(u, s) THEN Append(Bodies(stream[side], s), u.msg)
                  ELSE Bodies(stream[side], s)
    BY <1>4, <2>2, BodiesAppended
  <2>4. \A s : /\ OnTheirWay(side, s) = Bodies(stream[side], s)
               /\ OnTheirWay(side, s)' = Bodies(stream'[side], s)
    BY <1>2, <1>6 DEF OnTheirWay
  <2>5. CASE part = "size"
    <3>1. \A s : ~IsBody(u, s)
      BY <1>4, <2>5 DEF IsBody
    <3>2. QED  BY <1>2, <2>3, <2>4, <3>1 DEF ChannelStep, Unmoved
  <2>6. CASE part = "body"
    <3>1. \A s : IsBody(u, s) <=> s = t
      BY <1>4, <2>6 DEF IsBody
    <3>2. /\ OnTheirWay(side, t)' = Append(OnTheirWay(side, t), due[t])
          /\ \A s \in SendersTo(side) \ {t} : OnTheirWay(side, s)' = OnTheirWay(side, s)
      BY <1>4, <2>3, <2>4, <3>1
    <3>3. Longer(side, t)
      BY <1>1, <1>2, <1>6, <3>2 DEF Longer
    <3>4. QED  BY <1>6, <3>3, Places DEF ChannelStep
  <2>7. QED  BY <2>5, <2>6
<1>7. QED  BY <1>5, <1>6

LEMMA GiveUpOfChannel ==
    ASSUME WireInv, NEW reader \in Sides, Reading(reader), GiveUp(reader), NEW side \in Sides
    PROVE  ChannelStep(side)
<1>1. got' = got /\ stream' = [stream EXCEPT ![reader] = <<>>] /\ Types
  BY DEF GiveUp, WireInv
<1>2. CASE side = reader
  <2>1. Reads(side)
    BY <1>2, Places DEF Reading, Reads
  <2>2. ~Reads(side)'
    BY <1>2, Places DEF GiveUp, Reads
  <2>3. QED  BY <1>1, <2>1, <2>2 DEF ChannelStep, Ended
<1>3. CASE side # reader
  <2>1. stream'[side] = stream[side]
    BY <1>1, <1>3 DEF Types
  <2>2. Reads(side)' = Reads(side)
    BY <1>3, Places DEF GiveUp, Reads
  <2>3. QED  BY <1>1, <2>1, <2>2, Quiet
<1>4. QED  BY <1>2, <1>3

\* The unit that is read, and the bodies after it.
LEMMA ReadBodies ==
    ASSUME Types, NEW side \in Sides, stream[side] # <<>>,
           stream' = [stream EXCEPT ![side] = Tail(@)]
    PROVE  /\ stream[side][1] = Head(stream[side]) /\ stream[side][1].msg \in Messages
           /\ \A s : /\ Bodies(stream'[side], s) \in Seq(Messages)
                     /\ Bodies(stream[side], s) =
                           IF IsBody(stream[side][1], s)
                           THEN <<stream[side][1].msg>> \o Bodies(stream'[side], s)
                           ELSE Bodies(stream'[side], s)
           /\ \A sd \in Sides : sd # side => stream'[sd] = stream[sd]
<1>1. /\ stream[side] \in Seq(UnitSet) /\ stream'[side] = Tail(stream[side])
      /\ \A sd \in Sides : sd # side => stream'[sd] = stream[sd]
  BY DEF Types
<1>2. /\ Head(stream[side]) = stream[side][1] /\ Tail(stream[side]) \in Seq(UnitSet)
      /\ stream[side][1] \in UnitSet
  BY <1>1, HeadTailProperties, ElementOfSeq
<1>3. \A s : Bodies(stream'[side], s) \in Seq(Messages)
  BY <1>1, <1>2, BodiesType
<1>4. \A s : Bodies(stream[side], s) =
                IF IsBody(stream[side][1], s)
                THEN <<stream[side][1].msg>> \o Bodies(stream'[side], s)
                ELSE Bodies(stream'[side], s)
  BY <1>1, <1>2, BodiesRead
<1>5. QED  BY <1>1, <1>2, <1>3, <1>4 DEF UnitSet

LEMMA RecvSizeOfChannel ==
    ASSUME WireInv, NEW reader \in Sides, RecvSize(reader), NEW side \in Sides
    PROVE  ChannelStep(side)
<1>1. CASE Head(stream[reader]).part = "size"
  <2>1. /\ Types /\ stream[reader] # <<>>
        /\ stream' = [stream EXCEPT ![reader] = Tail(@)]
        /\ UNCHANGED <<got, wstate, cstate>>
    BY <1>1 DEF RecvSize, WireInv
  <2>2. \A s : ~IsBody(stream[reader][1], s)
    BY <1>1, <2>1, ReadBodies DEF IsBody
  <2>3. \A s : Bodies(stream'[side], s) = Bodies(stream[side], s)
    BY <2>1, <2>2, ReadBodies
  <2>4. Reads(side)' = Reads(side)
    BY <2>1 DEF Reads
  <2>5. QED  BY <2>1, <2>3, <2>4 DEF ChannelStep, Unmoved, OnTheirWay
<1>2. CASE Head(stream[reader]).part # "size"
  <2>1. Reading(reader) /\ GiveUp(reader)
    BY <1>2 DEF RecvSize
  <2>2. QED  BY <2>1, GiveUpOfChannel
<1>3. QED  BY <1>1, <1>2

LEMMA HeadTailOfCons ==
    \A m \in Messages, q \in Seq(Messages) :
        <<m>> \o q # <<>> /\ Head(<<m>> \o q) = m /\ Tail(<<m>> \o q) = q
OBVIOUS

LEMMA RecvBodyOfChannel ==
    ASSUME WireInv, GotType, NEW reader \in Sides, RecvBody(reader), NEW side \in Sides
    PROVE  ChannelStep(side)
<1> DEFINE u == stream[reader][1]
<1>1. /\ Types /\ OwnMessages /\ Reading(reader) /\ have[reader] # None
      /\ stream[reader] # <<>> /\ u.part = "body" /\ u.from = have[reader]
      /\ stream' = [stream EXCEPT ![reader] = Tail(@)]
      /\ cstate' = cstate
      /\ reader = "worker" => WorkerTakes(u.msg)
      /\ reader = "controller" => HandlerTakes(u.msg)
  BY RecvBodyShape DEF WireInv
<1>2. Head(stream[reader]) = u
  BY <1>1, ReadBodies
<1>3. got' = [got EXCEPT ![reader] = [from |-> have[reader], msg |-> u.msg]]
  BY <1>2 DEF RecvBody
<1>4. DOMAIN got = Sides
  BY DEF GotType
<1>5. CASE side # reader
  <2>1. got'[side] = got[side]
    BY <1>3, <1>5
  <2>2. Reads(side)' = Reads(side)
    BY <1>1, <1>5, Places DEF Reads, HandlerTakes
  <2>3. stream'[side] = stream[side]
    BY <1>1, <1>5, ReadBodies
  <2>4. QED  BY <2>1, <2>2, <2>3, Quiet
<1>6. CASE side = reader
  <2>1. PICK t \in SendersTo(side) : t = have[reader]
    BY <1>1, <1>6 DEF OwnMessages
  <2>2. Reads(side)
    BY <1>1, <1>6, Places DEF Reading, Reads
  <2>3. \A s : IsBody(u, s) <=> s = t
    BY <1>1, <2>1 DEF IsBody
  <2> HIDE DEF u
  <2>4. u.msg \in Messages /\ \A s : Bodies(stream'[side], s) \in Seq(Messages)
    BY <1>1, <1>6, ReadBodies DEF u
  <2>5. /\ Bodies(stream[side], t) = <<u.msg>> \o Bodies(stream'[side], t)
        /\ \A s : s # t => Bodies(stream[side], s) = Bodies(stream'[side], s)
    BY <1>1, <1>6, <2>3, ReadBodies DEF u
  <2>6. /\ Bodies(stream[side], t) # <<>>
        /\ Head(Bodies(stream[side], t)) = u.msg
        /\ Tail(Bodies(stream[side], t)) = Bodies(stream'[side], t)
    BY <2>4, <2>5, HeadTailOfCons
  <2>7. \A s : OnTheirWay(side, s) = Bodies(stream[side], s)
    BY <2>2 DEF OnTheirWay
  <2>8. Reads(side)' => \A s : OnTheirWay(side, s)' = Bodies(stream'[side], s)
    BY DEF OnTheirWay
  <2>9. got'[side] = [from |-> t, msg |-> u.msg]
    BY <1>3, <1>4, <1>6, <2>1 DEF u
  <2>10. /\ OnTheirWay(side, t) # <<>>
         /\ got'[side] = [from |-> t, msg |-> Head(OnTheirWay(side, t))]
    BY <2>6, <2>7, <2>9
  <2>11. ASSUME Reads(side)'
         PROVE  /\ OnTheirWay(side, t)' = Tail(OnTheirWay(side, t))
                /\ \A s \in SendersTo(side) \ {t} : OnTheirWay(side, s)' = OnTheirWay(side, s)
    <3>1. \A s : OnTheirWay(side, s)' = Bodies(stream'[side], s)
      BY <2>8, <2>11
    <3>2. QED  BY <2>5, <2>6, <2>7, <3>1
  <2>12. Shorter(side, t)
    BY <2>2, <2>10, <2>11 DEF Shorter
  <2>13. QED  BY <2>1, <2>12 DEF ChannelStep
<1>7. QED  BY <1>5, <1>6

LEMMA NextOfChannel ==
    ASSUME WireInv, GotType, [Next]_vars, NEW side \in Sides
    PROVE  ChannelStep(side)
<1>1. CASE Register \/ Beat \/ Assign \/ UNCHANGED vars
  <2>1. got' = got /\ stream' = stream
    BY <1>1 DEF Register, Beat, Assign, vars
  <2>2. Reads(side)' = Reads(side)
    BY <1>1 DEF Register, Beat, Assign, vars, Reads
  <2>3. QED  BY <2>1, <2>2, Quiet
<1>2. CASE Leave
  <2>1. got' = got /\ stream' = [stream EXCEPT !["worker"] = <<>>]
        /\ wstate = "lost" /\ wstate' = "gone" /\ cstate' = cstate
    BY <1>2 DEF Leave
  <2>2. Reads(side)' = Reads(side) /\ ~Reads("worker")
    BY <2>1 DEF Reads
  <2>3. side # "worker" => stream'[side] = stream[side]
    BY <2>1 DEF WireInv, Types
  <2>4. QED  BY <2>1, <2>2, <2>3, Quiet
<1>3. ASSUME NEW t \in Threads, Send(t)  PROVE ChannelStep(side)
  BY <1>3, SendToChannel
<1>4. ASSUME NEW reader \in Sides, Recv(reader)  PROVE ChannelStep(side)
  <2>1. CASE RecvSize(reader)
    BY <2>1, RecvSizeOfChannel
  <2>2. CASE RecvBody(reader)
    BY <2>2, RecvBodyOfChannel
  <2>3. CASE RecvOverlap(reader) \/ RecvEnd(reader)
    <3>1. Reading(reader) /\ GiveUp(reader)
      BY <2>3 DEF RecvOverlap, RecvEnd
    <3>2. QED  BY <3>1, GiveUpOfChannel
  <2>4. QED  BY <1>4, <2>1, <2>2, <2>3 DEF Recv
<1>5. QED  BY <1>1, <1>2, <1>3, <1>4 DEF Next

LEMMA InitGot == Init => GotType
BY DEF Init, GotType

LEMMA NextGot == WireInv /\ GotType /\ [Next]_vars => GotType'
<1> SUFFICES ASSUME WireInv, GotType, [Next]_vars
             PROVE  GotType'
  OBVIOUS
<1>1. ASSUME NEW reader \in Sides, RecvBody(reader)
      PROVE  GotType'
  <2>1. /\ stream[reader][1].msg \in Messages /\ have[reader] \in Threads
        /\ Head(stream[reader]) = stream[reader][1]
    BY <1>1, RecvBodyShape, ReadBodies DEF WireInv, Types
  <2>2. [from |-> have[reader], msg |-> stream[reader][1].msg]
            \in [from : Threads, msg : Messages]
    BY <2>1
  <2>3. got' = [got EXCEPT ![reader] = [from |-> have[reader], msg |-> stream[reader][1].msg]]
    BY <1>1, <2>1 DEF RecvBody
  <2>4. QED  BY <2>2, <2>3 DEF GotType
<1>2. CASE \A reader \in Sides : ~RecvBody(reader)
  <2>1. got' = got
    BY <1>2 DEF Next, vars, Register, Beat, Assign, Leave, Send, SendSize, SendBody, Recv,
                RecvSize, RecvOverlap, RecvEnd, GiveUp
  <2>2. QED  BY <2>1 DEF GotType
<1>3. QED  BY <1>1, <1>2

\* What a worker takes from its connection is what the threads of the controller
\* sent, whole, each thread's messages in order and none twice.
THEOREM WorkerHasAChannel == Spec => ChannelToWorker
<1> DEFINE Queue == [t \in ControllerThreads |-> OnTheirWay("worker", t)]
<1>1. Init => ToWorker!Init
  <2> SUFFICES ASSUME Init  PROVE ToWorker!Init
    OBVIOUS
  <2>1. stream["worker"] = <<>> /\ got["worker"] = Nothing /\ wstate = "off"
    BY Places DEF Init
  <2>2. \A t \in ControllerThreads : OnTheirWay("worker", t) = <<>>
    BY <2>1, NoBodies DEF OnTheirWay
  <2>3. QED  BY <2>1, <2>2 DEF ToWorker!Init, Reads
<1>2. ASSUME WireInv, GotType, [Next]_vars
      PROVE  [ToWorker!Next]_<<Queue, got["worker"], Reads("worker")>>
  <2>1. SendersTo("worker") = ControllerThreads /\ "worker" \in Sides
    BY Places DEF SendersTo
  <2>2. ChannelStep("worker")
    BY <1>2, <2>1, NextOfChannel
  <2>3. CASE Unmoved("worker")
    BY <2>1, <2>3 DEF Unmoved
  <2>4. ASSUME NEW t \in ControllerThreads, Longer("worker", t)
        PROVE  ToWorker!Next
    <3>1. PICK m \in Messages : OnTheirWay("worker", t)' = Append(OnTheirWay("worker", t), m)
      BY <2>4 DEF Longer
    <3>2. Queue' = [Queue EXCEPT ![t] = Append(@, m)]
      BY <2>1, <2>4, <3>1 DEF Longer
    <3>3. ToWorker!Send(t, m)
      BY <2>4, <3>2 DEF ToWorker!Send, Longer
    <3>4. QED  BY <3>3 DEF ToWorker!Next
  <2>5. ASSUME NEW t \in ControllerThreads, Shorter("worker", t)
        PROVE  ToWorker!Next
    <3>1. CASE Reads("worker")'
      <4>1. Queue' = [Queue EXCEPT ![t] = Tail(@)]
        BY <2>1, <2>5, <3>1 DEF Shorter
      <4>2. ToWorker!Deliver(t)
        BY <2>5, <3>1, <4>1 DEF ToWorker!Deliver, Shorter
      <4>3. QED  BY <4>2 DEF ToWorker!Next
    <3>2. CASE ~Reads("worker")'
      <4>1. Queue' = [s \in ControllerThreads |-> <<>>]
        BY <3>2 DEF OnTheirWay
      <4>2. ToWorker!Refuse(t)
        BY <2>5, <3>2, <4>1 DEF ToWorker!Refuse, Shorter
      <4>3. QED  BY <4>2 DEF ToWorker!Next
    <3>3. QED  BY <3>1, <3>2
  <2>6. CASE Ended("worker")
    <3>1. Queue' = [s \in ControllerThreads |-> <<>>]
      BY <2>6 DEF OnTheirWay, Ended
    <3>2. ToWorker!Close
      BY <2>6, <3>1 DEF ToWorker!Close, Ended
    <3>3. QED  BY <3>2 DEF ToWorker!Next
  <2>7. QED  BY <2>1, <2>2, <2>3, <2>4, <2>5, <2>6 DEF ChannelStep
<1>3. QED  BY <1>1, <1>2, InitWire, NextWire, InitGot, NextGot, PTL
           DEF Spec, ChannelToWorker, ToWorker!Spec

\* And what the handler of a connection takes is what the threads of the worker sent.
THEOREM ControllerHasAChannel == Spec => ChannelToController
<1> DEFINE Queue == [t \in WorkerThreads |-> OnTheirWay("controller", t)]
<1>1. Init => ToController!Init
  <2> SUFFICES ASSUME Init  PROVE ToController!Init
    OBVIOUS
  <2>1. stream["controller"] = <<>> /\ got["controller"] = Nothing /\ cstate = "open"
    BY Places DEF Init
  <2>2. \A t \in WorkerThreads : OnTheirWay("controller", t) = <<>>
    BY <2>1, NoBodies DEF OnTheirWay
  <2>3. QED  BY <2>1, <2>2 DEF ToController!Init, Reads
<1>2. ASSUME WireInv, GotType, [Next]_vars
      PROVE  [ToController!Next]_<<Queue, got["controller"], Reads("controller")>>
  <2>1. SendersTo("controller") = WorkerThreads /\ "controller" \in Sides
    BY Places DEF SendersTo
  <2>2. ChannelStep("controller")
    BY <1>2, <2>1, NextOfChannel
  <2>3. CASE Unmoved("controller")
    BY <2>1, <2>3 DEF Unmoved
  <2>4. ASSUME NEW t \in WorkerThreads, Longer("controller", t)
        PROVE  ToController!Next
    <3>1. PICK m \in Messages : OnTheirWay("controller", t)' = Append(OnTheirWay("controller", t), m)
      BY <2>4 DEF Longer
    <3>2. Queue' = [Queue EXCEPT ![t] = Append(@, m)]
      BY <2>1, <2>4, <3>1 DEF Longer
    <3>3. ToController!Send(t, m)
      BY <2>4, <3>2 DEF ToController!Send, Longer
    <3>4. QED  BY <3>3 DEF ToController!Next
  <2>5. ASSUME NEW t \in WorkerThreads, Shorter("controller", t)
        PROVE  ToController!Next
    <3>1. CASE Reads("controller")'
      <4>1. Queue' = [Queue EXCEPT ![t] = Tail(@)]
        BY <2>1, <2>5, <3>1 DEF Shorter
      <4>2. ToController!Deliver(t)
        BY <2>5, <3>1, <4>1 DEF ToController!Deliver, Shorter
      <4>3. QED  BY <4>2 DEF ToController!Next
    <3>2. CASE ~Reads("controller")'
      <4>1. Queue' = [s \in WorkerThreads |-> <<>>]
        BY <3>2 DEF OnTheirWay
      <4>2. ToController!Refuse(t)
        BY <2>5, <3>2, <4>1 DEF ToController!Refuse, Shorter
      <4>3. QED  BY <4>2 DEF ToController!Next
    <3>3. QED  BY <3>1, <3>2
  <2>6. CASE Ended("controller")
    <3>1. Queue' = [s \in WorkerThreads |-> <<>>]
      BY <2>6 DEF OnTheirWay, Ended
    <3>2. ToController!Close
      BY <2>6, <3>1 DEF ToController!Close, Ended
    <3>3. QED  BY <3>2 DEF ToController!Next
  <2>7. QED  BY <2>1, <2>2, <2>3, <2>4, <2>5, <2>6 DEF ChannelStep
<1>3. QED  BY <1>1, <1>2, InitWire, NextWire, InitGot, NextGot, PTL
           DEF Spec, ChannelToController, ToController!Spec

-----------------------------------------------------------------------------
(* The jobs that are counted *)

\* Of every job that was sent, at most one trace is left: it is about to be sent, on
\* its way, worked on, its result on its way, or handled.
Owed(t) == IF due[t] # None THEN 1 ELSE 0
Coming(side, t) == Len(Bodies(stream[side], t))
Traces ==
    results + Owed("scheduler") + Coming("worker", "scheduler")
            + Owed("loop") + Coming("controller", "loop")
Counted ==
    /\ jobs \in 0 .. MaxJobs /\ beats \in 0 .. MaxBeats /\ results \in Nat
    /\ Traces <= jobs

LEMMA CountTypes ==
    ASSUME Types
    PROVE  /\ \A t : Owed(t) \in {0, 1}
           /\ \A side \in Sides : \A t : Coming(side, t) \in Nat
           /\ {"worker", "controller"} \subseteq Sides
           /\ {"scheduler", "loop"} \subseteq Threads
<1>1. \A side \in Sides : \A t : Bodies(stream[side], t) \in Seq(Messages)
  BY BodiesType DEF Types
<1>2. \A side \in Sides : \A t : Coming(side, t) \in Nat
  BY <1>1, LenProperties DEF Coming
<1>3. QED  BY <1>2, Places DEF Owed

LEMMA CountTypesNext ==
    ASSUME Types'
    PROVE  /\ \A t : Owed(t)' \in {0, 1}
           /\ \A side \in Sides : \A t : Coming(side, t)' \in Nat
           /\ {"worker", "controller"} \subseteq Sides
           /\ {"scheduler", "loop"} \subseteq Threads
<1>1. \A side \in Sides : \A t : Bodies(stream'[side], t) \in Seq(Messages)
  BY BodiesType DEF Types
<1>2. \A side \in Sides : \A t : Coming(side, t)' \in Nat
  BY <1>1, LenProperties DEF Coming
<1>3. QED  BY <1>2, Places DEF Owed

LEMMA PutStream ==
    ASSUME Types, OwnMessages, NEW t \in Threads, due[t] # None,
           NEW part \in {"size", "body"}, Put(t, part), NEW side \in Sides
    PROVE  \/ stream'[side] = stream[side]
           \/ /\ side = Other(SideOf(t))
              /\ stream'[side] = Append(stream[side], Unit(part, t))
<1>1. CASE IsOpen(Other(SideOf(t)))
  BY <1>1, PutEffect
<1>2. CASE ~IsOpen(Other(SideOf(t)))
  BY <1>2 DEF Put
<1>3. QED  BY <1>1, <1>2

\* Nothing that counts grows.
LEMMA NoMoreTraces ==
    ASSUME Types, Types', Counted, UNCHANGED <<jobs, beats, results>>,
           Owed("scheduler")' <= Owed("scheduler"), Owed("loop")' <= Owed("loop"),
           Coming("worker", "scheduler")' <= Coming("worker", "scheduler"),
           Coming("controller", "loop")' <= Coming("controller", "loop")
    PROVE  Counted'
<1>1. /\ {Owed("scheduler"), Owed("loop"), Owed("scheduler")', Owed("loop")'} \subseteq Nat
      /\ {Coming("worker", "scheduler"), Coming("controller", "loop"),
          Coming("worker", "scheduler")', Coming("controller", "loop")'} \subseteq Nat
  BY CountTypes, CountTypesNext
<1>2. Traces' <= Traces
  BY <1>1 DEF Traces, Counted
<1>3. Traces \in Nat /\ Traces' \in Nat /\ jobs \in Nat
  BY <1>1 DEF Traces, Counted
<1>4. QED  BY <1>2, <1>3 DEF Counted

LEMMA InitCounted == Init => Counted
<1> SUFFICES ASSUME Init  PROVE Counted
  OBVIOUS
<1>1. /\ stream["worker"] = <<>> /\ stream["controller"] = <<>>
      /\ due["scheduler"] = None /\ due["loop"] = None
      /\ jobs = 0 /\ beats = 0 /\ results = 0
  BY Places DEF Init
<1>2. Len(<<>>) = 0
  OBVIOUS
<1>3. Traces = 0
  BY <1>1, <1>2, NoBodies DEF Traces, Owed, Coming
<1>4. QED  BY <1>1, <1>3, Constants DEF Counted

LEMMA SendCounted ==
    ASSUME WireInv, Types', Counted, NEW t \in Threads, Send(t)
    PROVE  Counted'
<1>1. /\ Types /\ OwnMessages /\ due[t] # None /\ UNCHANGED <<jobs, beats, results>>
  BY DEF Send, SendSize, SendBody, WireInv, HalfDue
<1>2. \A side \in Sides : stream[side] \in Seq(UnitSet)
  BY <1>1 DEF Types
<1>3. ASSUME NEW part \in {"size", "body"}, Put(t, part), NEW side \in Sides, NEW s,
             part = "size" \/ s # t \/ side # Other(SideOf(t))
      PROVE  Coming(side, s)' = Coming(side, s)
  <2> DEFINE u == Unit(part, t)
  <2>1. /\ u \in UnitSet /\ u.from = t /\ u.part = part
        /\ \/ stream'[side] = stream[side]
           \/ side = Other(SideOf(t)) /\ stream'[side] = Append(stream[side], u)
    BY <1>1, <1>3, PutEffect, PutStream
  <2> HIDE DEF u
  <2>2. CASE stream'[side] = stream[side]
    BY <2>2 DEF Coming
  <2>3. CASE stream'[side] = Append(stream[side], u) /\ side = Other(SideOf(t))
    <3>1. ~IsBody(u, s)
      BY <1>3, <2>1, <2>3 DEF IsBody
    <3>2. Bodies(stream'[side], s) = Bodies(stream[side], s)
      BY <1>2, <2>1, <2>3, <3>1, BodiesAppended
    <3>3. QED  BY <3>2 DEF Coming
  <2>4. QED  BY <2>1, <2>2, <2>3
<1>4. CASE SendSize(t)
  <2>1. Put(t, "size") /\ due' = due
    BY <1>4 DEF SendSize
  <2>2. \A side \in Sides : \A s : Coming(side, s)' = Coming(side, s)
    BY <1>3, <2>1
  <2>3. \A s : Owed(s)' = Owed(s)
    BY <2>1 DEF Owed
  <2>4. QED  BY <1>1, <2>2, <2>3, CountTypes, NoMoreTraces
<1>5. CASE SendBody(t)
  <2> DEFINE to == Other(SideOf(t))
  <2>1. Put(t, "body") /\ due' = [due EXCEPT ![t] = None] /\ to \in Sides
    BY <1>5, Places DEF SendBody
  <2>2. \A s \in Threads : s # t => Owed(s)' = Owed(s)
    BY <1>1, <2>1 DEF Owed, Types
  <2>3. Owed(t)' = 0 /\ Owed(t) = 1
    BY <1>1, <2>1 DEF Owed, Types
  <2>4. \A side \in Sides : \A s : s # t => Coming(side, s)' = Coming(side, s)
    BY <1>3, <2>1
  <2>5. Coming(to, t)' <= Coming(to, t) + 1
    <3> DEFINE u == Unit("body", t)
    <3>1. /\ u \in UnitSet /\ stream[to] \in Seq(UnitSet) /\ u.msg \in Messages
          /\ stream'[to] = stream[to] \/ stream'[to] = Append(stream[to], u)
      BY <1>1, <1>2, <2>1, PutEffect, PutStream DEF UnitSet
    <3> HIDE DEF u, to
    <3>2. /\ Bodies(stream[to], t) \in Seq(Messages)
          /\ Bodies(Append(stream[to], u), t) \in {Bodies(stream[to], t),
                 Append(Bodies(stream[to], t), u.msg)}
      BY <3>1, BodiesAppended, BodiesType
    <3>3. Bodies(stream'[to], t) \in {Bodies(stream[to], t),
                 Append(Bodies(stream[to], t), u.msg)}
      BY <3>1, <3>2
    <3>4. Len(Bodies(stream'[to], t)) <= Len(Bodies(stream[to], t)) + 1
      BY <3>1, <3>2, <3>3
    <3>5. QED  BY <3>4 DEF Coming
  <2> HIDE DEF to
  <2>6. CASE t \notin {"scheduler", "loop"}
    BY <1>1, <2>2, <2>4, <2>6, CountTypes, NoMoreTraces
  <2>7. CASE t \in {"scheduler", "loop"}
    <3>1. /\ t = "scheduler" => to = "worker"
          /\ t = "loop" => to = "controller"
      BY Places DEF to
    <3>2. /\ Owed("scheduler") \in Nat /\ Owed("loop") \in Nat
          /\ Coming("worker", "scheduler") \in Nat /\ Coming("controller", "loop") \in Nat
          /\ Owed("scheduler")' \in Nat /\ Owed("loop")' \in Nat
          /\ Coming("worker", "scheduler")' \in Nat /\ Coming("controller", "loop")' \in Nat
      BY <1>1, CountTypes, CountTypesNext
    <3>3. CASE t = "scheduler"
      <4>1. /\ Owed("scheduler")' = 0 /\ Owed("scheduler") = 1 /\ Owed("loop")' = Owed("loop")
            /\ Coming("worker", "scheduler")' <= Coming("worker", "scheduler") + 1
            /\ Coming("controller", "loop")' = Coming("controller", "loop")
        BY <2>2, <2>3, <2>4, <2>5, <3>1, <3>3, <1>1, CountTypes
      <4>2. Traces' <= Traces
        BY <1>1, <3>2, <4>1 DEF Traces, Counted
      <4>3. Traces' \in Nat /\ Traces \in Nat
        BY <1>1, <3>2 DEF Traces, Counted
      <4>4. QED  BY <1>1, <4>2, <4>3 DEF Counted
    <3>4. CASE t = "loop"
      <4>1. /\ Owed("loop")' = 0 /\ Owed("loop") = 1
            /\ Owed("scheduler")' = Owed("scheduler")
            /\ Coming("controller", "loop")' <= Coming("controller", "loop") + 1
            /\ Coming("worker", "scheduler")' = Coming("worker", "scheduler")
        BY <2>2, <2>3, <2>4, <2>5, <3>1, <3>4, <1>1, CountTypes
      <4>2. Traces' <= Traces
        BY <1>1, <3>2, <4>1 DEF Traces, Counted
      <4>3. Traces' \in Nat /\ Traces \in Nat
        BY <1>1, <3>2 DEF Traces, Counted
      <4>4. QED  BY <1>1, <4>2, <4>3 DEF Counted
    <3>5. QED  BY <2>7, <3>3, <3>4
  <2>8. QED  BY <2>6, <2>7
<1>6. QED  BY <1>4, <1>5 DEF Send

\* What a side drops counts no more.
LEMMA DropCounted ==
    ASSUME Types, Types', Counted, NEW side \in Sides,
           stream' = [stream EXCEPT ![side] = <<>>], UNCHANGED <<due, jobs, beats, results>>
    PROVE  Counted'
<1>1. \A sd \in Sides : stream'[sd] \in {stream[sd], <<>>}
  BY DEF Types
<1>2. Len(<<>>) = 0
  OBVIOUS
<1>3. \A sd \in Sides : \A t : Coming(sd, t)' = Coming(sd, t) \/ Coming(sd, t)' = 0
  BY <1>1, <1>2, NoBodies DEF Coming
<1>4. \A sd \in Sides : \A t : Coming(sd, t)' <= Coming(sd, t)
  BY <1>3, CountTypes
<1>5. \A t : Owed(t)' = Owed(t)
  BY DEF Owed
<1>6. QED  BY <1>4, <1>5, CountTypes, NoMoreTraces

LEMMA RecvSizeCounted ==
    ASSUME WireInv, Types', Counted, NEW side \in Sides, RecvSize(side)
    PROVE  Counted'
<1>1. CASE Head(stream[side]).part = "size"
  <2>1. /\ Types /\ stream[side] # <<>> /\ stream' = [stream EXCEPT ![side] = Tail(@)]
        /\ UNCHANGED <<due, jobs, beats, results>>
    BY <1>1 DEF RecvSize, WireInv
  <2>2. \A s : ~IsBody(stream[side][1], s)
    BY <1>1, <2>1, ReadBodies DEF IsBody
  <2>3. \A sd \in Sides : \A s : Bodies(stream'[sd], s) = Bodies(stream[sd], s)
    BY <2>1, <2>2, ReadBodies
  <2>4. \A sd \in Sides : \A s : Coming(sd, s)' = Coming(sd, s)
    BY <2>3 DEF Coming
  <2>5. \A s : Owed(s)' = Owed(s)
    BY <2>1 DEF Owed
  <2>6. QED  BY <2>1, <2>4, <2>5, CountTypes, NoMoreTraces
<1>2. CASE Head(stream[side]).part # "size"
  BY <1>2, DropCounted DEF RecvSize, GiveUp, WireInv
<1>3. QED  BY <1>1, <1>2

LEMMA LenOfCons ==
    \A m \in Messages, q \in Seq(Messages) : Len(q) \in Nat /\ Len(<<m>> \o q) = Len(q) + 1
OBVIOUS

LEMMA RecvBodyCounted ==
    ASSUME WireInv, Types', Counted, NEW side \in Sides, RecvBody(side)
    PROVE  Counted'
<1> DEFINE u == stream[side][1]
<1>1. /\ Types /\ Reading(side) /\ stream[side] # <<>> /\ have[side] \in Threads
      /\ u.part = "body" /\ u.from = have[side] /\ u.msg \in Sends(have[side])
      /\ stream' = [stream EXCEPT ![side] = Tail(@)]
      /\ UNCHANGED <<jobs, beats>>
      /\ side = "worker" => WorkerTakes(u.msg)
      /\ side = "controller" => HandlerTakes(u.msg)
  BY RecvBodyShape DEF WireInv, Types
<1>2. \A s : IsBody(u, s) <=> s = have[side]
  BY <1>1 DEF IsBody
<1>3. /\ u.msg \in Messages /\ \A s : Bodies(stream'[side], s) \in Seq(Messages)
      /\ \A s : Bodies(stream[side], s) = IF IsBody(u, s)
                  THEN <<u.msg>> \o Bodies(stream'[side], s) ELSE Bodies(stream'[side], s)
      /\ \A sd \in Sides : sd # side => stream'[sd] = stream[sd]
  BY <1>1, ReadBodies
<1> HIDE DEF u
<1>4. \A s : Coming(side, s) = IF s = have[side] THEN Coming(side, s)' + 1
                               ELSE Coming(side, s)'
  BY <1>2, <1>3, LenOfCons DEF Coming
<1>5. \A sd \in Sides : \A s : sd # side => Coming(sd, s)' = Coming(sd, s)
  BY <1>3 DEF Coming
<1>6. /\ Owed("scheduler") \in Nat /\ Owed("loop") \in Nat
      /\ Coming("worker", "scheduler") \in Nat /\ Coming("controller", "loop") \in Nat
      /\ Owed("scheduler")' \in Nat /\ Owed("loop")' \in Nat
      /\ Coming("worker", "scheduler")' \in Nat /\ Coming("controller", "loop")' \in Nat
      /\ "worker" \in Sides /\ "controller" \in Sides
  BY <1>1, CountTypes, CountTypesNext
<1>7. CASE side = "worker"
  <2>1. WorkerTakes(u.msg) /\ results' = results
    BY <1>1, <1>7 DEF WorkerTakes
  <2>2. /\ Coming("controller", "loop")' = Coming("controller", "loop")
        /\ Coming("worker", "scheduler")' <= Coming("worker", "scheduler")
    BY <1>4, <1>5, <1>6, <1>7
  <2>3. CASE wstate = "running" /\ u.msg = "JOB_ASSIGN"
    <3>1. have["worker"] = "scheduler"
      BY <1>1, <1>7, <2>3, Places DEF Sends
    <3>2. Coming("worker", "scheduler") = Coming("worker", "scheduler")' + 1
      BY <1>4, <1>7, <3>1
    <3>3. due["loop"] = None
      BY <1>1, <1>7, <2>3 DEF Reading
    <3>4. due' = [due EXCEPT !["loop"] = "JOB_RESULT"]
      BY <2>1, <2>3 DEF WorkerTakes
    <3>5. Owed("loop") = 0 /\ Owed("loop")' <= 1 /\ Owed("scheduler")' = Owed("scheduler")
      BY <1>1, <3>3, <3>4 DEF Owed, Types
    <3>6. Traces' <= Traces
      BY <1>6, <2>1, <2>2, <3>2, <3>5 DEF Traces, Counted
    <3>7. Traces' \in Nat /\ Traces \in Nat
      BY <1>6, <2>1 DEF Traces, Counted
    <3>8. QED  BY <1>1, <2>1, <3>6, <3>7 DEF Counted
  <2>4. CASE ~(wstate = "running" /\ u.msg = "JOB_ASSIGN")
    <3>1. \A s : Owed(s)' = Owed(s)
      BY <2>1, <2>4 DEF WorkerTakes, Owed
    <3>2. QED  BY <1>1, <1>6, <2>1, <2>2, <3>1, NoMoreTraces
  <2>5. QED  BY <2>3, <2>4
<1>8. CASE side = "controller"
  <2>1. HandlerTakes(u.msg)
    BY <1>1, <1>8
  <2>2. Owed("scheduler")' = Owed("scheduler") /\ Owed("loop")' = Owed("loop")
    BY <1>1, <2>1 DEF HandlerTakes, Owed, Types
  <2>3. /\ Coming("worker", "scheduler")' = Coming("worker", "scheduler")
        /\ Coming("controller", "loop")' <= Coming("controller", "loop")
    BY <1>4, <1>5, <1>6, <1>8
  <2>4. CASE u.msg = "JOB_RESULT"
    <3>1. have["controller"] = "loop"
      BY <1>1, <1>8, <2>4, Places DEF Sends
    <3>2. Coming("controller", "loop") = Coming("controller", "loop")' + 1
      BY <1>4, <1>8, <3>1
    <3>3. results' = results + 1
      BY <2>1, <2>4 DEF HandlerTakes
    <3>4. results' \in Nat /\ Traces' <= Traces
      BY <1>6, <2>2, <2>3, <3>2, <3>3 DEF Traces, Counted
    <3>5. Traces' \in Nat /\ Traces \in Nat
      BY <1>6, <3>4 DEF Traces, Counted
    <3>6. QED  BY <1>1, <3>4, <3>5 DEF Counted
  <2>5. CASE u.msg # "JOB_RESULT"
    <3>1. results' = results
      BY <2>1, <2>5 DEF HandlerTakes
    <3>2. QED  BY <1>1, <1>6, <2>2, <2>3, <3>1, NoMoreTraces
  <2>6. QED  BY <2>4, <2>5
<1>9. QED  BY <1>7, <1>8, Places

LEMMA NextCounted == WireInv /\ Counted /\ [Next]_vars => Counted'
<1> SUFFICES ASSUME WireInv, Counted, [Next]_vars
             PROVE  Counted'
  OBVIOUS
<1>1. Types /\ Types'
  BY NextWire DEF WireInv
<1>2. CASE Register
  <2>1. stream' = stream /\ UNCHANGED <<jobs, beats, results>>
        /\ due'["scheduler"] = due["scheduler"] /\ due'["loop"] = due["loop"]
    BY <1>1, <1>2 DEF Register, Types
  <2>2. /\ Owed("scheduler")' = Owed("scheduler") /\ Owed("loop")' = Owed("loop")
        /\ Coming("worker", "scheduler")' = Coming("worker", "scheduler")
        /\ Coming("controller", "loop")' = Coming("controller", "loop")
    BY <2>1 DEF Owed, Coming
  <2>3. QED  BY <1>1, <2>1, <2>2, CountTypes, NoMoreTraces
<1>3. CASE Beat
  <2>1. stream' = stream /\ UNCHANGED <<jobs, results>> /\ beats' \in 0 .. MaxBeats
        /\ due'["scheduler"] = due["scheduler"] /\ due'["loop"] = due["loop"]
    BY <1>1, <1>3, Constants DEF Beat, Types
  <2>2. Traces' = Traces
    BY <2>1 DEF Traces, Owed, Coming
  <2>3. QED  BY <2>1, <2>2 DEF Counted
<1>4. CASE Assign
  <2>1. stream' = stream /\ UNCHANGED <<beats, results>> /\ due["scheduler"] = None
        /\ jobs' = jobs + 1 /\ jobs' \in 0 .. MaxJobs /\ due'["loop"] = due["loop"]
    BY <1>1, <1>4, Constants DEF Assign, Types, Counted
  <2>2. /\ Owed("scheduler") = 0 /\ Owed("loop")' = Owed("loop")
        /\ Coming("worker", "scheduler")' = Coming("worker", "scheduler")
        /\ Coming("controller", "loop")' = Coming("controller", "loop")
    BY <2>1 DEF Owed, Coming
  <2>3. /\ Owed("loop") \in Nat /\ Owed("scheduler")' \in {0, 1}
        /\ Coming("worker", "scheduler") \in Nat /\ Coming("controller", "loop") \in Nat
    BY <1>1, CountTypes, CountTypesNext
  <2>4. Traces' <= Traces + 1
    BY <2>1, <2>2, <2>3 DEF Traces, Counted
  <2>5. Traces \in Nat /\ Traces' \in Nat
    BY <2>1, <2>2, <2>3 DEF Traces, Counted
  <2>6. QED  BY <2>1, <2>4, <2>5 DEF Counted
<1>5. CASE Leave
  BY <1>1, <1>5, DropCounted, Places DEF Leave
<1>6. ASSUME NEW t \in Threads, Send(t)  PROVE Counted'
  BY <1>1, <1>6, SendCounted
<1>7. ASSUME NEW side \in Sides, Recv(side)  PROVE Counted'
  <2>1. CASE RecvSize(side)
    BY <1>1, <2>1, RecvSizeCounted
  <2>2. CASE RecvBody(side)
    BY <1>1, <2>2, RecvBodyCounted
  <2>3. CASE RecvOverlap(side) \/ RecvEnd(side)
    BY <1>1, <2>3, DropCounted DEF RecvOverlap, RecvEnd, GiveUp
  <2>4. QED  BY <1>7, <2>1, <2>2, <2>3 DEF Recv
<1>8. CASE UNCHANGED vars
  <2>1. Traces' = Traces /\ UNCHANGED <<jobs, beats, results>>
    BY <1>8 DEF vars, Traces, Owed, Coming
  <2>2. QED  BY <2>1 DEF Counted
<1>9. QED  BY <1>2, <1>3, <1>4, <1>5, <1>6, <1>7, <1>8 DEF Next

\* Every variable keeps its type, and no more results are handled than jobs were
\* sent, however many there are.
THEOREM TypeCorrect == Spec => []TypeOK
<1>1. WireInv /\ GotType /\ Counted => TypeOK
  <2> SUFFICES ASSUME WireInv, GotType, Counted
               PROVE  TypeOK
    OBVIOUS
  <2>1. Types
    BY DEF WireInv
  <2>2. /\ Owed("scheduler") \in Nat /\ Owed("loop") \in Nat
        /\ Coming("worker", "scheduler") \in Nat /\ Coming("controller", "loop") \in Nat
    BY <2>1, CountTypes
  <2>3. results <= jobs
    BY <2>2 DEF Counted, Traces
  <2>4. results \in 0 .. MaxJobs
    BY <2>3, Constants DEF Counted
  <2>5. QED  BY <2>1, <2>4 DEF Types, GotType, Counted, UnitSet, TypeOK
<1>2. QED  BY <1>1, InitWire, NextWire, InitGot, NextGot, InitCounted, NextCounted, PTL
           DEF Spec
=============================================================================
