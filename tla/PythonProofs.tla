----------------------------- MODULE PythonProofs -----------------------------
(***************************************************************************)
(* Two of the Python programs.  Of PyBinding, for any threads, pipelines,  *)
(* pools and texts: the library is called with live handles only, each is  *)
(* freed once, and encode does not give up.  Of DatasetMapping, for any    *)
(* input, configuration and order of the pairs: the clusters are cliques,  *)
(* and none are left that could be fused.                                  *)
(***************************************************************************)
EXTENDS PyBinding, DatasetMapping, FiniteSetTheorems, TLAPS

-----------------------------------------------------------------------------
(* The binding.                                                            *)

\* The thread is inside an operation.
Active(t) == thread[t].pc # "idle"

\* An object that a thread's frames refer to, and one that a thread closes.
Holds(t, o) == Active(t) /\ o \in thread[t].uses

Closing(t, o) == Holds(t, o) /\ thread[t].op = "close"

\* What the variables hold.
Typed ==
  /\ lib \in {"none", "bound"}
  /\ wrapper \in [Objects -> [handle : BOOLEAN, alive : BOOLEAN]]
  /\ held \in [Objects -> BOOLEAN]
  /\ native \in [Objects -> {"none", "live", "freed"}]
  /\ stream \in [Pipelines -> [generator : {"none", "created", "running", "suspended", "ended"},
                               open : BOOLEAN, left : Int]]
  /\ exited \in BOOLEAN
  /\ DOMAIN thread = Threads
  /\ \A t \in Threads : "pc" \in DOMAIN thread[t]

\* What a thread inside an operation has in its frames.
Frame(t) ==
  /\ {"pc", "op", "uses", "buffers"} \subseteq DOMAIN thread[t]
  /\ thread[t].uses \in SUBSET Objects
  /\ thread[t].op \in Methods \cup {"new", "next", "close"}
  /\ thread[t].op \in {"new", "next", "close"} => \E o \in Objects : thread[t].uses = {o}
  /\ thread[t].op = "next" => thread[t].uses \in SUBSET Pipelines
  /\ thread[t].op = "close" <=> thread[t].pc \in {"close", "finalize", "forget"}
  /\ thread[t].pc = "feed" => thread[t].op = "next"
  /\ thread[t].pc \in {"size", "native"} => thread[t].op # "next"
  /\ thread[t].pc = "return" => thread[t].buffers = 0
  /\ thread[t].op # "close" /\ thread[t].pc \notin {"load", "bind"} => lib = "bound"

\* An object that is closed or iterated is not used by another thread in a way that
\* this excludes, and one that is being made by no other thread at all.
Exclusive ==
  \A t, u \in Threads, o \in Objects :
    t # u /\ Holds(t, o) /\ Holds(u, o) =>
      /\ thread[t].op = "close" => thread[u].op = "close"
      /\ thread[t].op # "new"
      /\ ~(thread[t].op = "next" /\ thread[u].op = "next")

\* An object that is not made yet: nothing knows it but its constructor.
Unmade ==
  \A o \in Objects :
    /\ native[o] = "none" =>
         /\ ~held[o] /\ ~wrapper[o].handle
         /\ o \in Pipelines => stream[o].generator = "none"
    /\ \A t \in Threads : Holds(t, o) =>
         (thread[t].op = "new" <=> native[o] = "none")

\* Something can still reach the object.
InReach(o) ==
  \/ held[o]
  \/ \E t \in Threads : Holds(t, o)
  \/ o \in Pipelines /\ stream[o].generator \notin {"none", "ended"}

\* A handle that can be read is live, unless the object is being closed.
Handles ==
  \A o \in Objects :
    /\ native[o] = "live" <=> wrapper[o].alive
    /\ wrapper[o].handle /\ InReach(o) /\ ~exited =>
         wrapper[o].alive \/ \E t \in Threads : Closing(t, o)

\* What the library is given, and what its streams lie over.
Given ==
  /\ \A t \in Threads : thread[t].pc \in {"size", "native"} /\ thread[t].op # "new" =>
       \A o \in thread[t].uses : wrapper[o].alive
  /\ \A t \in Threads : thread[t].pc = "feed" => \A o \in thread[t].uses : stream[o].open
  /\ \A t \in Threads : Active(t) /\ thread[t].op = "next" =>
       \A o \in thread[t].uses : stream[o].generator = "running"
  /\ \A p \in Pipelines : stream[p].open =>
       /\ stream[p].generator \in {"running", "suspended"}
       /\ ~exited => wrapper[p].alive /\ \A t \in Threads : ~Closing(t, p)
  /\ exited => \A t \in Threads : thread[t].pc \in {"idle", "gave up"}

\* The inductive invariant.
BindInv ==
  /\ Typed
  /\ \A t \in Threads : Active(t) => Frame(t)
  /\ Exclusive
  /\ Unmade
  /\ Handles
  /\ Given

-----------------------------------------------------------------------------
\* No method has the name of another operation.
LEMMA Names ==
  /\ {"new", "next", "close"} \cap Methods = {}
  /\ Sized \subseteq Methods /\ Buffered \subseteq Methods /\ OfPools \subseteq Methods
BY DEF Methods, OneCall, Sized, Buffered, OfPools

\* The initial state satisfies the invariant.
LEMMA BindInit == BindingInit => BindInv
<1> SUFFICES ASSUME BindingInit PROVE BindInv
  OBVIOUS
<1>1. \A t \in Threads : ~Active(t) /\ thread[t].pc = "idle" /\ "pc" \in DOMAIN thread[t]
  BY DEF BindingInit, Active, Idle
<1>2. Typed
  <2>1. wrapper \in [Objects -> [handle : BOOLEAN, alive : BOOLEAN]]
    BY DEF BindingInit, Unborn
  <2>2. stream \in [Pipelines ->
          [generator : {"none", "created", "running", "suspended", "ended"},
           open : BOOLEAN, left : Int]]
    BY DEF BindingInit, Closed
  <2> QED BY <1>1, <2>1, <2>2 DEF BindingInit, Typed
<1>3. Unmade
  BY <1>1 DEF BindingInit, Unmade, Holds, Unborn, Closed
<1>4. Handles
  BY DEF BindingInit, Handles, Unborn
<1>5. Given
  BY <1>1 DEF BindingInit, Given, Closed
<1> QED BY <1>1, <1>2, <1>3, <1>4, <1>5 DEF BindInv, Exclusive, Holds

\* The other threads' frames, after a step of thread t.
OnlyThread(t) ==
  /\ DOMAIN thread' = Threads
  /\ \A u \in Threads \ {t} : thread'[u] = thread[u]

\* The fields of a frame that several assignments leave alone.
LEMMA BufferedFrame ==
  ASSUME NEW f, NEW t \in DOMAIN f, NEW g, NEW a, NEW b,
         {"pc", "op", "uses", "buffers"} \subseteq DOMAIN f[t],
         g = [f EXCEPT ![t].pc = a, ![t].buffers = b]
  PROVE  /\ DOMAIN g = DOMAIN f /\ \A u \in DOMAIN f \ {t} : g[u] = f[u]
         /\ DOMAIN g[t] = DOMAIN f[t] /\ g[t].pc = a /\ g[t].buffers = b
         /\ g[t].op = f[t].op /\ g[t].uses = f[t].uses
OBVIOUS

\* The same, when a method starts.
LEMMA StartedFrame ==
  ASSUME NEW f, NEW t \in DOMAIN f, NEW g, NEW a, NEW b, NEW c,
         {"pc", "op", "uses", "buffers"} \subseteq DOMAIN f[t],
         g = [f EXCEPT ![t].pc = a, ![t].text = b, ![t].cap = c]
  PROVE  /\ DOMAIN g = DOMAIN f /\ \A u \in DOMAIN f \ {t} : g[u] = f[u]
         /\ DOMAIN g[t] = DOMAIN f[t] /\ g[t].pc = a
         /\ g[t].op = f[t].op /\ g[t].uses = f[t].uses
OBVIOUS

\* The same, when encode tries again.
LEMMA RetriedFrame ==
  ASSUME NEW f, NEW t \in DOMAIN f, NEW g, NEW a, NEW c,
         {"pc", "op", "uses", "buffers"} \subseteq DOMAIN f[t],
         g = [f EXCEPT ![t].pc = a, ![t].tries = @ + 1, ![t].cap = c]
  PROVE  /\ DOMAIN g = DOMAIN f /\ \A u \in DOMAIN f \ {t} : g[u] = f[u]
         /\ DOMAIN g[t] = DOMAIN f[t] /\ g[t].pc = a
         /\ g[t].op = f[t].op /\ g[t].uses = f[t].uses
OBVIOUS

\* A step inside an operation that leaves the objects alone.
LEMMA MoveKeeps ==
  ASSUME BindInv, NEW t \in Threads, Active(t), ~exited,
         UNCHANGED <<wrapper, held, native, stream, exited>>,
         lib' \in {lib, "bound"}, OnlyThread(t),
         Active(t)', Frame(t)', thread'[t].op = thread[t].op, thread'[t].uses = thread[t].uses,
         thread'[t].pc \in {"size", "native"} /\ thread[t].op # "new" =>
           \A o \in thread[t].uses : wrapper[o].alive,
         thread'[t].pc = "feed" => \A o \in thread[t].uses : stream[o].open
  PROVE  BindInv'
<1>1. \A u \in Threads : Active(u)' <=> Active(u)
  BY DEF OnlyThread, Active
<1>2. \A u \in Threads : Active(u) =>
        thread'[u].op = thread[u].op /\ thread'[u].uses = thread[u].uses
  BY DEF OnlyThread
<1>3. Typed'
  BY DEF BindInv, Typed, OnlyThread, Frame
<1>4. \A u \in Threads : Active(u)' => Frame(u)'
  BY DEF BindInv, Frame, OnlyThread, Active
<1>5. \A u \in Threads, o \in Objects :
        (Holds(u, o)' <=> Holds(u, o)) /\ (Closing(u, o)' <=> Closing(u, o))
  BY <1>1, <1>2 DEF Holds, Closing
<1>6. Exclusive'
  BY <1>2, <1>5 DEF BindInv, Exclusive, Holds
<1>7. Unmade'
  BY <1>2, <1>5 DEF BindInv, Unmade, Holds
<1>8. Handles'
  <2>1. \A o \in Objects : InReach(o)' <=> InReach(o)
    BY <1>5 DEF InReach
  <2> QED BY <1>5, <2>1 DEF BindInv, Handles
<1>9. Given'
  <2>1. Pipelines \subseteq Objects
    BY DEF Objects
  <2>2. ASSUME NEW u \in Threads, thread'[u].pc \in {"size", "native"}, thread'[u].op # "new",
               NEW o \in thread'[u].uses
        PROVE  wrapper'[o].alive
    BY ZenonT(60), <2>2 DEF BindInv, Given, OnlyThread
  <2>3. ASSUME NEW u \in Threads, thread'[u].pc = "feed", NEW o \in thread'[u].uses
        PROVE  stream'[o].open
    BY <2>3 DEF BindInv, Given, OnlyThread
  <2>4. ASSUME NEW u \in Threads, Active(u)', thread'[u].op = "next", NEW o \in thread'[u].uses
        PROVE  stream'[o].generator = "running"
    BY <1>1, <1>2, <2>4 DEF BindInv, Given
  <2>5. \A p \in Pipelines : stream'[p].open =>
          /\ stream'[p].generator \in {"running", "suspended"}
          /\ wrapper'[p].alive /\ \A u \in Threads : ~Closing(u, p)'
    BY <1>5, <2>1 DEF BindInv, Given
  <2> QED BY <2>2, <2>3, <2>4, <2>5 DEF Given
<1> QED BY <1>3, <1>4, <1>6, <1>7, <1>8, <1>9 DEF BindInv

\* A thread that leaves an operation which is no close.
LEMMA LeaveKeeps ==
  ASSUME BindInv, NEW t \in Threads, Active(t), ~exited, thread[t].op # "close",
         UNCHANGED <<lib, wrapper, held, native, stream, exited>>, Done(t)
  PROVE  BindInv'
<1>1. /\ DOMAIN thread' = Threads /\ thread'[t] = Idle
      /\ \A u \in Threads \ {t} : thread'[u] = thread[u]
  BY DEF Done, BindInv, Typed
<1>2. ~Active(t)' /\ thread'[t].pc = "idle" /\ "pc" \in DOMAIN thread'[t]
  BY <1>1 DEF Active, Idle
<1>3. \A u \in Threads \ {t} : Active(u)' <=> Active(u)
  BY <1>1 DEF Active
<1>4. Typed'
  BY <1>1, <1>2 DEF BindInv, Typed
<1>5. \A u \in Threads : Active(u)' => Frame(u)'
  BY <1>1, <1>2, <1>3 DEF BindInv, Frame
<1>6. \A u \in Threads, o \in Objects :
        (Holds(u, o)' => Holds(u, o)) /\ (Closing(u, o)' <=> Closing(u, o))
  BY <1>1, <1>2, <1>3 DEF Holds, Closing
<1>7. Exclusive'
  BY <1>1, <1>2, <1>3, <1>6 DEF BindInv, Exclusive, Holds
<1>8. Unmade'
  BY <1>1, <1>2, <1>3, <1>6 DEF BindInv, Unmade, Holds
<1>9. Handles'
  <2>1. \A o \in Objects : InReach(o)' => InReach(o)
    BY <1>6 DEF InReach
  <2> QED BY <1>6, <2>1 DEF BindInv, Handles
<1>10. Given'
  <2>1. Pipelines \subseteq Objects
    BY DEF Objects
  <2> QED BY ZenonT(60), <2>1, <1>1, <1>2, <1>3, <1>6 DEF BindInv, Given
<1> QED BY <1>4, <1>5, <1>7, <1>8, <1>9, <1>10 DEF BindInv

\* A handle that was read by the one who uses it is live.
LEMMA ReadIsLive ==
  ASSUME BindInv, NEW t \in Threads, Active(t), ~exited, thread[t].op \notin {"close", "new"},
         NEW o \in thread[t].uses, wrapper[o].handle
  PROVE  wrapper[o].alive
<1>1. o \in Objects /\ Holds(t, o) /\ InReach(o)
  BY DEF BindInv, Frame, Holds, InReach
<1>2. \A u \in Threads : ~Closing(u, o)
  BY <1>1 DEF BindInv, Exclusive, Closing, Holds
<1> QED BY <1>1, <1>2 DEF BindInv, Handles

\* The steps inside a method, and its returns.
LEMMA MethodSteps ==
  ASSUME BindInv, NEW t \in Threads,
         \/ LoadLibrary(t) \/ Bind(t) \/ StartMethod(t) \/ SizeReturns(t) \/ EncodeReturns(t)
         \/ MethodReturns(t) \/ BuffersReturn(t) \/ CopyOut(t) \/ Returns(t) \/ CloseLooks(t)
  PROVE  BindInv'
<1> DEFINE kept == UNCHANGED <<wrapper, held, native, stream, exited>>
<1>1. /\ Active(t) /\ ~exited /\ kept
  BY DEF LoadLibrary, Bind, StartMethod, SizeReturns, EncodeReturns, MethodReturns,
         BuffersReturn, CopyOut, Returns, CloseLooks, At, Active
<1>2. Frame(t) /\ Typed
  BY <1>1 DEF BindInv
<1>3. ASSUME Done(t), UNCHANGED lib, thread[t].op # "close" PROVE BindInv'
  BY <1>1, <1>3, LeaveKeeps
<1>4. ASSUME NEW pc \in {"bind", "start", "finalize", "forget"}, Goto(t, pc),
             lib' \in {lib, "bound"}, pc = "start" => lib' = "bound",
             thread[t].op = "close" <=> pc \in {"finalize", "forget"}
      PROVE  BindInv'
  <2>1. /\ OnlyThread(t) /\ Active(t)' /\ Frame(t)'
        /\ thread'[t].op = thread[t].op /\ thread'[t].uses = thread[t].uses
        /\ thread'[t].pc = pc
    BY <1>2, <1>4 DEF Goto, OnlyThread, Active, Frame, Typed
  <2> QED BY <1>1, <1>4, <2>1, MoveKeeps
<1>5. CASE LoadLibrary(t)
  BY <1>2, <1>3, <1>4, <1>5 DEF LoadLibrary, At, Frame
<1>6. CASE Bind(t)
  BY <1>2, <1>4, <1>6 DEF Bind, At, Frame
<1>7. CASE CloseLooks(t)
  BY <1>2, <1>4, <1>7 DEF CloseLooks, At, Frame
<1>8. CASE MethodReturns(t) \/ Returns(t)
  BY <1>2, <1>3, <1>8 DEF MethodReturns, Returns, At, Frame
<1>9. CASE StartMethod(t)
  <2>1. thread[t].op \notin {"close", "next"} /\ UNCHANGED lib /\ lib = "bound"
    BY <1>2, <1>9 DEF StartMethod, At, Frame
  <2>2. CASE Done(t)
    BY <1>3, <2>1, <2>2
  <2>3. CASE ~Done(t)
    <3>1. /\ ~Refused(t) /\ OnlyThread(t)
          /\ thread'[t].pc \in {"size", "native"}
          /\ thread'[t].op = thread[t].op /\ thread'[t].uses = thread[t].uses
          /\ DOMAIN thread'[t] = DOMAIN thread[t]
      <4>1. ~Refused(t)
        BY <1>9, <2>3 DEF StartMethod
      <4>2. PICK text \in Texts :
              thread' = [thread EXCEPT
                ![t].pc = IF thread[t].op \in Sized THEN "size" ELSE "native",
                ![t].text = text, ![t].cap = FirstCap(text)]
        BY <1>9, <2>3 DEF StartMethod
      <4> QED BY <1>2, <4>1, <4>2, StartedFrame DEF Frame, Typed, OnlyThread
    <3>2. Active(t)' /\ Frame(t)'
      BY <1>2, <2>1, <3>1 DEF Frame, Active
    <3>3. thread[t].op # "new" => \A o \in thread[t].uses : wrapper[o].alive
      <4>1. thread[t].op # "new" => \A o \in thread[t].uses : wrapper[o].handle
        BY <1>1, <3>1 DEF Refused, Uses, Active
      <4> QED BY <1>1, <2>1, <4>1, ReadIsLive
    <3> QED BY <1>1, <2>1, <3>1, <3>2, <3>3, MoveKeeps
  <2> QED BY <2>2, <2>3
<1>10. CASE SizeReturns(t) \/ EncodeReturns(t)
  <2>1. /\ UNCHANGED lib /\ thread[t].pc \in {"size", "native"} /\ lib = "bound"
        /\ thread[t].op \notin {"close", "next"}
    BY <1>2, <1>10 DEF SizeReturns, EncodeReturns, At, Frame
  <2>2. CASE Done(t)
    BY <1>3, <2>1, <2>2
  <2>3. CASE ~Done(t)
    <3>1. /\ OnlyThread(t)
          /\ thread'[t].pc \in {"native", "gave up"}
          /\ thread'[t].op = thread[t].op /\ thread'[t].uses = thread[t].uses
          /\ DOMAIN thread'[t] = DOMAIN thread[t]
      <4>1. CASE SizeReturns(t)
        BY <1>2, <2>3, <4>1 DEF SizeReturns, Goto, Frame, Typed, OnlyThread
      <4>2. CASE EncodeReturns(t)
        <5>1. thread' = [thread EXCEPT
                ![t].pc = IF thread[t].tries + 1 < Tries THEN "native" ELSE "gave up",
                ![t].tries = @ + 1, ![t].cap = Grown(thread[t].cap, thread[t].text)]
          BY <2>3, <4>2 DEF EncodeReturns
        <5> QED BY <1>2, <5>1, RetriedFrame DEF Frame, Typed, OnlyThread
      <4> QED BY <1>10, <4>1, <4>2
    <3>2. Active(t)' /\ Frame(t)'
      BY <1>2, <2>1, <3>1 DEF Frame, Active
    <3>3. thread[t].op # "new" => \A o \in thread[t].uses : wrapper[o].alive
      BY <2>1 DEF BindInv, Given
    <3> QED BY <1>1, <2>1, <3>1, <3>2, <3>3, MoveKeeps
  <2> QED BY <2>2, <2>3
<1>11. CASE BuffersReturn(t) \/ CopyOut(t)
  <2>1. /\ UNCHANGED lib /\ thread[t].pc \in {"native", "copy"} /\ lib = "bound"
        /\ thread[t].op # "close"
    BY <1>2, <1>11 DEF BuffersReturn, CopyOut, At, Frame
  <2>2. /\ OnlyThread(t)
        /\ \/ thread'[t].pc = "copy"
           \/ thread'[t].pc = "return" /\ thread'[t].buffers = 0
        /\ thread'[t].op = thread[t].op /\ thread'[t].uses = thread[t].uses
        /\ DOMAIN thread'[t] = DOMAIN thread[t]
    <3>1. CASE BuffersReturn(t)
      <4>1. PICK n \in 0 .. 2 : thread' = [thread EXCEPT ![t].pc = "copy", ![t].buffers = n]
        BY <3>1 DEF BuffersReturn
      <4> QED BY <1>2, <4>1, BufferedFrame DEF Frame, Typed, OnlyThread
    <3>2. CASE CopyOut(t)
      <4>1. thread' = [thread EXCEPT ![t].pc = "return", ![t].buffers = 0]
        BY <3>2 DEF CopyOut
      <4> QED BY <1>2, <4>1, BufferedFrame DEF Frame, Typed, OnlyThread
    <3> QED BY <1>11, <3>1, <3>2
  <2>3. Active(t)' /\ Frame(t)'
    BY <1>2, <2>1, <2>2 DEF Frame, Active
  <2> QED BY <1>1, <2>1, <2>2, <2>3, MoveKeeps
<1> QED BY <1>5, <1>6, <1>7, <1>8, <1>9, <1>10, <1>11

\* A thread enters an operation that the others' operations allow.
LEMMA CallKeeps ==
  ASSUME BindInv, NEW t \in Threads, ~Active(t), ~exited,
         NEW op \in Methods \cup {"new", "next", "close"}, NEW uses \in SUBSET Objects,
         UNCHANGED <<lib, wrapper, held, native, exited>>,
         OnlyThread(t), Active(t)', Frame(t)',
         thread'[t].op = op, thread'[t].uses = uses,
         thread'[t].pc \notin {"size", "native", "feed"},
         stream' \in [Pipelines ->
           [generator : {"none", "created", "running", "suspended", "ended"},
            open : BOOLEAN, left : Int]],
         \A p \in Pipelines : stream'[p].open = stream[p].open,
         \A p \in Pipelines : \/ stream'[p].generator = stream[p].generator
                              \/ p \in uses /\ op = "next" /\ stream'[p].generator = "running"
                                 /\ stream[p].generator \in {"created", "suspended"},
         op = "next" => \A p \in uses : stream'[p].generator = "running",
         \A o \in uses : InReach(o) \/ op = "new",
         \A o \in uses : op = "new" <=> native[o] = "none",
         op = "close" => \A o \in uses : o \in Pipelines => ~stream[o].open,
         \A o \in uses, u \in Threads \ {t} : Holds(u, o) =>
           /\ op # "new" /\ thread[u].op # "new"
           /\ op = "close" <=> thread[u].op = "close"
           /\ ~(op = "next" /\ thread[u].op = "next")
  PROVE  BindInv'
<1>1. /\ \A u \in Threads \ {t} : Active(u)' <=> Active(u)
      /\ \A u \in Threads \ {t} : thread'[u] = thread[u]
  BY DEF OnlyThread, Active
<1>2. \A u \in Threads \ {t}, o \in Objects :
        (Holds(u, o)' <=> Holds(u, o)) /\ (Closing(u, o)' <=> Closing(u, o))
  BY <1>1 DEF Holds, Closing
<1>3. /\ \A o \in Objects : Holds(t, o)' <=> o \in uses
      /\ \A o \in Objects : Closing(t, o)' <=> o \in uses /\ op = "close"
      /\ \A o \in Objects : ~Holds(t, o) /\ ~Closing(t, o)
  BY DEF Holds, Closing
<1>4. Typed'
  BY <1>1 DEF BindInv, Typed, OnlyThread, Frame
<1>5. \A u \in Threads : Active(u)' => Frame(u)'
  BY <1>1 DEF BindInv, Frame
<1>6. Exclusive'
  BY <1>1, <1>2, <1>3 DEF BindInv, Exclusive
<1>7. Unmade'
  <2>1. ASSUME NEW o \in Objects, native'[o] = "none"
        PROVE  /\ ~held'[o] /\ ~wrapper'[o].handle
               /\ o \in Pipelines => stream'[o].generator = "none"
    BY <2>1 DEF BindInv, Unmade
  <2>2. ASSUME NEW o \in Objects, NEW u \in Threads, Holds(u, o)'
        PROVE  thread'[u].op = "new" <=> native'[o] = "none"
    BY <1>1, <1>2, <1>3, <2>2 DEF BindInv, Unmade
  <2> QED BY <2>1, <2>2 DEF Unmade
<1>8. Handles'
  <2>1. ASSUME NEW o \in Objects, InReach(o)', ~InReach(o)
        PROVE  op = "new" /\ native[o] = "none"
    BY <1>2, <1>3, <2>1 DEF InReach
  <2>2. \A o \in Objects : native[o] = "none" => ~wrapper[o].handle
    BY DEF BindInv, Unmade
  <2>3. \A o \in Objects, u \in Threads : Closing(u, o) => Closing(u, o)'
    BY <1>2, <1>3
  <2> QED BY <2>1, <2>2, <2>3 DEF BindInv, Handles
<1>9. Given'
  <2>0. Pipelines \subseteq Objects
    BY DEF Objects
  <2>1. \A u \in Threads : thread'[u].pc \in {"size", "native"} /\ thread'[u].op # "new" =>
          \A o \in thread'[u].uses : wrapper'[o].alive
    BY <1>1 DEF BindInv, Given
  <2>6. ASSUME NEW u \in Threads \ {t}, Active(u), thread[u].op = "next", NEW o \in thread[u].uses
        PROVE  o \in Pipelines /\ stream[o].generator = "running"
    <3>1. Frame(u) /\ Given
      BY <2>6 DEF BindInv
    <3> QED BY <2>6, <3>1 DEF Frame, Given
  <2>2. ASSUME NEW u \in Threads, thread'[u].pc = "feed", NEW o \in thread'[u].uses
        PROVE  stream'[o].open
    <3>1. u # t /\ Active(u) /\ thread[u].pc = "feed" /\ o \in thread[u].uses
      BY <1>1, <2>2 DEF Active
    <3>2. thread[u].op = "next" /\ stream[o].open
      BY <3>1 DEF BindInv, Given, Frame
    <3> QED BY <2>6, <3>1, <3>2
  <2>3. ASSUME NEW u \in Threads, Active(u)', thread'[u].op = "next", NEW o \in thread'[u].uses
        PROVE  stream'[o].generator = "running"
    <3>1. CASE u = t
      BY <2>3, <3>1
    <3>2. CASE u # t
      <4>1. Active(u) /\ thread[u].op = "next" /\ o \in thread[u].uses
        BY <1>1, <2>3, <3>2
      <4> QED BY <2>6, <3>2, <4>1
    <3> QED BY <3>1, <3>2
  <2>4. \A p \in Pipelines : stream'[p].open =>
          stream'[p].generator \in {"running", "suspended"}
    BY DEF BindInv, Given
  <2>5. \A p \in Pipelines : stream'[p].open /\ ~exited' =>
          wrapper'[p].alive /\ \A u \in Threads : ~Closing(u, p)'
    BY ZenonT(60), <2>0, <1>2, <1>3 DEF BindInv, Given
  <2> QED BY <2>1, <2>2, <2>3, <2>4, <2>5 DEF Given
<1> QED BY <1>4, <1>5, <1>6, <1>7, <1>8, <1>9 DEF BindInv

\* What a call puts into the thread's frame.
LEMMA CalledFrame ==
  ASSUME BindInv, NEW t \in Threads, NEW op \in Methods \cup {"new", "next"},
         NEW uses \in SUBSET Objects, Called(t, op, uses), UNCHANGED lib,
         op \in {"new", "next"} => \E o \in Objects : uses = {o},
         op = "next" => uses \in SUBSET Pipelines
  PROVE  /\ ~Active(t) /\ ~exited
         /\ OnlyThread(t) /\ Active(t)' /\ Frame(t)'
         /\ thread'[t].op = op /\ thread'[t].uses = uses
         /\ thread'[t].pc \in {"load", "start"}
<1>1. DOMAIN thread = Threads /\ lib \in {"none", "bound"}
  BY DEF BindInv, Typed
<1>2. /\ DOMAIN thread' = Threads /\ \A u \in Threads \ {t} : thread'[u] = thread[u]
      /\ thread'[t] = [pc |-> IF lib = "none" THEN "load" ELSE "start", op |-> op, uses |-> uses,
                       cap |-> 0, tries |-> 0, text |-> CHOOSE x \in Texts : TRUE, buffers |-> 0]
  BY <1>1 DEF Called
<1>3. /\ thread'[t].pc = (IF lib = "none" THEN "load" ELSE "start")
      /\ thread'[t].op = op /\ thread'[t].uses = uses
      /\ {"pc", "op", "uses", "buffers"} \subseteq DOMAIN thread'[t]
  BY <1>2
<1>4. op # "close"
  BY Names
<1>5. Frame(t)'
  BY <1>1, <1>3, <1>4 DEF Frame
<1> QED BY <1>2, <1>3, <1>5 DEF Called, At, Active, OnlyThread

\* The calls of the program.
LEMMA CallSteps ==
  ASSUME BindInv, NEW t \in Threads,
         CallNew(t) \/ CallMethod(t) \/ CallNext(t) \/ CallClose(t)
  PROVE  BindInv'
<1>1. Typed /\ Unmade /\ Given /\ Pipelines \subseteq Objects /\ Pools \subseteq Objects
  BY DEF BindInv, Objects
<1>2. ASSUME NEW o \in Objects, NEW u \in Threads, NEW ops, ~Busy(o, ops), Holds(u, o)
      PROVE  thread[u].op \notin ops
  BY <1>2 DEF Busy, Holds, Uses, Active
<1>3. ASSUME NEW o \in Objects, NEW u \in Threads, Holds(u, o)
      PROVE  /\ thread[u].op \in Methods \cup {"new", "next", "close"}
             /\ thread[u].op = "new" <=> native[o] = "none"
  BY <1>1, <1>3 DEF BindInv, Unmade, Holds, Frame
<1>4. CASE CallNew(t)
  <2>1. PICK o \in Objects : native[o] = "none" /\ ~Busy(o, {"new"}) /\ Called(t, "new", {o})
    BY <1>4 DEF CallNew
  <2>2. UNCHANGED <<lib, wrapper, held, native, stream, exited>>
    BY <1>4 DEF CallNew
  <2>3. /\ ~Active(t) /\ ~exited
        /\ OnlyThread(t) /\ Active(t)' /\ Frame(t)'
        /\ thread'[t].op = "new" /\ thread'[t].uses = {o}
        /\ thread'[t].pc \in {"load", "start"}
    BY <2>1, <2>2, CalledFrame
  <2>4. \A u \in Threads : ~Holds(u, o)
    BY <1>2, <1>3, <2>1
  <2> QED BY <1>1, <2>1, <2>2, <2>3, <2>4, CallKeeps DEF Typed
<1>5. CASE CallMethod(t)
  <2>1. PICK op \in Methods, p \in Pipelines, b \in Pools :
          LET uses == (IF op \in Unpiped THEN {} ELSE {p})
                      \cup (IF op \in OfPools THEN {b} ELSE {})
          IN  /\ \A o \in uses : held[o] /\ ~Busy(o, {"close"})
              /\ Called(t, op, uses)
    BY <1>5 DEF CallMethod
  <2> DEFINE uses == (IF op \in Unpiped THEN {} ELSE {p})
                      \cup (IF op \in OfPools THEN {b} ELSE {})
  <2>2. /\ \A o \in uses : held[o] /\ ~Busy(o, {"close"})
        /\ Called(t, op, uses) /\ uses \in SUBSET Objects
    BY <1>1, <2>1
  <2>3. UNCHANGED <<lib, wrapper, held, native, stream, exited>>
    BY <1>5 DEF CallMethod
  <2> HIDE DEF uses
  <2>4. op \notin {"new", "next", "close"}
    BY Names
  <2>5. /\ ~Active(t) /\ ~exited
        /\ OnlyThread(t) /\ Active(t)' /\ Frame(t)'
        /\ thread'[t].op = op /\ thread'[t].uses = uses
        /\ thread'[t].pc \in {"load", "start"}
    BY <2>2, <2>3, <2>4, CalledFrame
  <2>6. \A o \in uses : InReach(o) /\ native[o] # "none"
    BY <1>1, <2>2 DEF InReach, Unmade
  <2>7. \A o \in uses, u \in Threads : Holds(u, o) => thread[u].op \notin {"new", "close"}
    BY <1>2, <1>3, <2>2, <2>6
  <2> QED BY <1>1, <2>2, <2>3, <2>4, <2>5, <2>6, <2>7, CallKeeps DEF Typed
<1>6. CASE CallNext(t)
  <2>1. PICK p \in Pipelines :
          /\ stream[p].generator \in {"created", "suspended"}
          /\ ~Busy(p, {"close", "next"})
          /\ Called(t, "next", {p})
          /\ stream' = [stream EXCEPT ![p].generator = "running"]
    BY <1>6 DEF CallNext
  <2>2. UNCHANGED <<lib, wrapper, held, native, exited>>
    BY <1>6 DEF CallNext
  <2>3. /\ ~Active(t) /\ ~exited
        /\ OnlyThread(t) /\ Active(t)' /\ Frame(t)'
        /\ thread'[t].op = "next" /\ thread'[t].uses = {p}
        /\ thread'[t].pc \in {"load", "start"}
    BY <1>1, <2>1, <2>2, CalledFrame
  <2>4. InReach(p) /\ native[p] # "none" /\ p \in Objects
    BY <1>1, <2>1 DEF InReach, Unmade
  <2>5. \A u \in Threads : Holds(u, p) => thread[u].op \notin {"new", "close", "next"}
    BY <1>2, <1>3, <2>1, <2>4
  <2>6. /\ stream' \in [Pipelines ->
             [generator : {"none", "created", "running", "suspended", "ended"},
              open : BOOLEAN, left : Int]]
        /\ \A q \in Pipelines : stream'[q].open = stream[q].open
        /\ stream'[p].generator = "running"
        /\ \A q \in Pipelines \ {p} : stream'[q].generator = stream[q].generator
    BY <1>1, <2>1 DEF Typed
  <2>7. "next" \in Methods \cup {"new", "next", "close"} /\ {p} \in SUBSET Objects
    BY <2>4
  <2>8. \A q \in Pipelines : \/ stream'[q].generator = stream[q].generator
                             \/ q \in {p} /\ stream'[q].generator = "running"
                                /\ stream[q].generator \in {"created", "suspended"}
    BY <2>1, <2>6
  <2> QED BY <2>2, <2>3, <2>4, <2>5, <2>6, <2>7, <2>8, CallKeeps
<1>7. CASE CallClose(t)
  <2>1. PICK o \in Objects :
          /\ held[o] /\ At(t, "idle")
          /\ ~Busy(o, Methods \cup {"next"})
          /\ o \in Pipelines => ~stream[o].open
          /\ thread' = [thread EXCEPT ![t] =
               [pc |-> "close", op |-> "close", uses |-> {o}, buffers |-> 0]]
    BY <1>7 DEF CallClose
  <2>2. UNCHANGED <<lib, wrapper, held, native, stream, exited>>
    BY <1>7 DEF CallClose
  <2>3. /\ OnlyThread(t)
        /\ thread'[t] = [pc |-> "close", op |-> "close", uses |-> {o}, buffers |-> 0]
    BY <1>1, <2>1 DEF OnlyThread, Typed
  <2>4. /\ ~Active(t) /\ ~exited /\ Active(t)' /\ Frame(t)'
        /\ thread'[t].op = "close" /\ thread'[t].uses = {o} /\ thread'[t].pc = "close"
    BY <2>1, <2>3 DEF Active, At, Frame
  <2>5. InReach(o) /\ native[o] # "none"
    BY <1>1, <2>1 DEF InReach, Unmade
  <2>6. \A u \in Threads : Holds(u, o) => thread[u].op = "close"
    BY <1>2, <1>3, <2>1, <2>5
  <2>7. /\ "close" \in Methods \cup {"new", "next", "close"} /\ {o} \in SUBSET Objects
        /\ \A q \in Pipelines : stream'[q] = stream[q]
        /\ stream' \in [Pipelines ->
             [generator : {"none", "created", "running", "suspended", "ended"},
              open : BOOLEAN, left : Int]]
    BY <1>1, <2>2 DEF Typed
  <2>8. o \in Pipelines => ~stream[o].open
    BY <2>1
  <2> QED BY <2>2, <2>3, <2>4, <2>5, <2>6, <2>7, <2>8, CallKeeps
<1> QED BY <1>4, <1>5, <1>6, <1>7

-----------------------------------------------------------------------------
\* A step after which the threads hold the same objects, or t holds none, that changes
\* what it changes of one generator only.
LEMMA StreamKeeps ==
  ASSUME BindInv, ~exited, UNCHANGED <<lib, wrapper, held, native, exited>>,
         NEW p \in Pipelines, NEW x, stream' = [stream EXCEPT ![p] = x],
         x \in [generator : {"none", "created", "running", "suspended", "ended"},
                open : BOOLEAN, left : Int],
         DOMAIN thread' = Threads,
         \A t \in Threads : \/ thread'[t] = thread[t]
                            \/ thread'[t] = Idle /\ thread[t].op # "close"
                            \/ /\ Active(t) /\ Active(t)' /\ Frame(t)'
                               /\ thread'[t].op = thread[t].op /\ thread'[t].op = "next"
                               /\ thread'[t].uses = thread[t].uses
                               /\ thread'[t].pc = "feed" => thread[t].uses = {p} /\ x.open,
         stream[p].generator \in {"none", "ended"} =>
           (held[p] /\ native[p] # "none") \/ x.generator \in {"none", "ended"},
         native[p] = "none" => x.generator = "none",
         x.open => /\ x.generator \in {"running", "suspended"}
                   /\ wrapper[p].alive
                   /\ \A t \in Threads : ~Closing(t, p),
         \A t \in Threads : Holds(t, p)' /\ thread[t].op = "next" => x.generator = "running",
         \A t \in Threads : Holds(t, p)' /\ thread[t].pc = "feed" => x.open
  PROVE  BindInv'
<1>1. Pipelines \subseteq Objects
  BY DEF Objects
<1>2. stream'[p] = x /\ \A q \in Pipelines \ {p} : stream'[q] = stream[q]
  BY DEF BindInv, Typed
<1>3. \A t \in Threads : Active(t)' =>
        Active(t) /\ thread'[t].op = thread[t].op /\ thread'[t].uses = thread[t].uses
  BY DEF Active, Idle
<1>4. \A t \in Threads, o \in Objects :
        (Holds(t, o)' => Holds(t, o)) /\ (Closing(t, o)' <=> Closing(t, o))
  BY <1>3 DEF Holds, Closing, Active
<1>5. Typed'
  BY <1>3 DEF BindInv, Typed, Frame, Idle
<1>6. \A t \in Threads : Active(t)' => Frame(t)'
  BY DEF BindInv, Frame, Active, Idle
<1>7. Exclusive'
  BY <1>3, <1>4 DEF BindInv, Exclusive, Holds
<1>8. Unmade'
  <2>1. ASSUME NEW o \in Objects, native'[o] = "none", o \in Pipelines
        PROVE  stream'[o].generator = "none"
    BY <1>2, <2>1 DEF BindInv, Unmade
  <2>2. ASSUME NEW o \in Objects, NEW u \in Threads, Holds(u, o)'
        PROVE  thread'[u].op = "new" <=> native'[o] = "none"
    BY <1>3, <1>4, <2>2 DEF BindInv, Unmade, Holds
  <2> QED BY <2>1, <2>2 DEF BindInv, Unmade
<1>9. Handles'
  <2>1. \A o \in Objects : InReach(o)' => InReach(o)
    BY <1>2, <1>4 DEF InReach
  <2> QED BY <1>4, <2>1 DEF BindInv, Handles
<1>10. Given'
  <2>1. \A u \in Threads : thread'[u].pc \in {"size", "native"} /\ thread'[u].op # "new" =>
          \A o \in thread'[u].uses : wrapper'[o].alive
    <3>1. ASSUME NEW u \in Threads, thread'[u].pc \in {"size", "native"}
          PROVE  thread'[u] = thread[u]
      BY <3>1 DEF Frame, Idle
    <3> QED BY <3>1 DEF BindInv, Given
  <2>2. ASSUME NEW u \in Threads, thread'[u].pc = "feed", NEW o \in thread'[u].uses
        PROVE  stream'[o].open
    <3>1. Active(u)' /\ Active(u) /\ thread'[u].op = "next" /\ thread[u].uses = thread'[u].uses
      BY <1>3, <1>6, <2>2 DEF Active, Frame
    <3>2. o \in Pipelines /\ Holds(u, o)'
      BY <1>6, <2>2, <3>1 DEF Frame, Holds
    <3>3. CASE thread'[u] = thread[u]
      <4>1. stream[o].open
        BY <2>2, <3>3 DEF BindInv, Given
      <4> QED BY <1>2, <2>2, <3>2, <3>3, <4>1
    <3>4. CASE thread'[u] # thread[u]
      BY <1>2, <2>2, <3>1, <3>4 DEF Active, Idle
    <3> QED BY <3>3, <3>4
  <2>3. ASSUME NEW u \in Threads, Active(u)', thread'[u].op = "next", NEW o \in thread'[u].uses
        PROVE  stream'[o].generator = "running"
    <3>1. Active(u) /\ thread[u].op = "next" /\ o \in thread[u].uses
      BY <1>3, <2>3
    <3>2. o \in Pipelines /\ Holds(u, o)' /\ stream[o].generator = "running"
      BY <1>6, <2>3, <3>1 DEF Frame, Holds, BindInv, Given
    <3> QED BY <1>2, <3>1, <3>2
  <2>4. \A q \in Pipelines : stream'[q].open =>
          /\ stream'[q].generator \in {"running", "suspended"}
          /\ wrapper'[q].alive /\ \A u \in Threads : ~Closing(u, q)'
    <3>1. \A q \in Pipelines, u \in Threads : Closing(u, q)' <=> Closing(u, q)
      BY <1>1, <1>4
    <3>2. \A q \in Pipelines : stream[q].open =>
            /\ stream[q].generator \in {"running", "suspended"}
            /\ wrapper[q].alive /\ \A u \in Threads : ~Closing(u, q)
      BY DEF BindInv, Given
    <3> HIDE DEF BindInv
    <3> QED BY <1>2, <3>1, <3>2
  <2> QED BY <2>1, <2>2, <2>3, <2>4 DEF Given
<1> QED BY <1>5, <1>6, <1>7, <1>8, <1>9, <1>10 DEF BindInv

\* Where a generator can be.
Generators == {"none", "created", "running", "suspended", "ended"}

\* Two fields of one record are assigned.
LEMMA StreamRecord ==
  ASSUME NEW r \in [generator : Generators, open : BOOLEAN, left : Int],
         NEW a \in Int, NEW b \in Generators,
         NEW x, x = [r EXCEPT !.left = a, !.generator = b]
                \/ x = [r EXCEPT !.generator = b, !.left = a]
  PROVE  x \in [generator : Generators, open : BOOLEAN, left : Int]
         /\ x.open = r.open /\ x.generator = b
<1>1. CASE x = [r EXCEPT !.left = a, !.generator = b]
  <2> DEFINE y == [r EXCEPT !.left = a]
  <2>1. y \in [generator : Generators, open : BOOLEAN, left : Int] /\ y.open = r.open
    OBVIOUS
  <2>2. x = [y EXCEPT !.generator = b]
    BY <1>1
  <2> HIDE DEF y
  <2> QED BY <2>1, <2>2
<1>2. CASE x = [r EXCEPT !.generator = b, !.left = a]
  <2> DEFINE y == [r EXCEPT !.generator = b]
  <2>1. y \in [generator : Generators, open : BOOLEAN, left : Int]
        /\ y.open = r.open /\ y.generator = b
    OBVIOUS
  <2>2. x = [y EXCEPT !.left = a]
    BY <1>2
  <2> HIDE DEF y
  <2> QED BY <2>1, <2>2
<1> QED BY <1>1, <1>2

\* The stream of one pipeline is that record.
LEMMA StreamAssigned ==
  ASSUME NEW P, NEW T, NEW f \in [P -> T], NEW p \in P, NEW a, NEW b, NEW g,
         g = [f EXCEPT ![p].left = a, ![p].generator = b]
  PROVE  g = [f EXCEPT ![p] = [f[p] EXCEPT !.left = a, !.generator = b]]
<1>1. DOMAIN f = P
  OBVIOUS
<1>2. g[p] = [f[p] EXCEPT !.left = a, !.generator = b]
  OBVIOUS
<1>3. \A q \in P \ {p} : g[q] = f[q]
  OBVIOUS
<1>4. DOMAIN g = P /\ g = [q \in P |-> g[q]]
  OBVIOUS
<1>5. [f EXCEPT ![p] = [f[p] EXCEPT !.left = a, !.generator = b]] = [q \in P |-> g[q]]
  <2> DEFINE x == [f[p] EXCEPT !.left = a, !.generator = b]
  <2> HIDE DEF x
  <2>1. [f EXCEPT ![p] = x] = [q \in P |-> IF q = p THEN x ELSE f[q]]
    OBVIOUS
  <2> QED BY <2>1, <1>2, <1>3 DEF x
<1> QED BY <1>4, <1>5

\* Making a generator, running it and closing it.
LEMMA StreamSteps ==
  ASSUME BindInv,
         \/ \E t \in Threads : CallEncodeStream(t) \/ StreamStarts(t) \/ StreamFeeds(t)
         \/ StreamCloses
  PROVE  BindInv'
<1> DEFINE Streams == [generator : {"none", "created", "running", "suspended", "ended"},
                       open : BOOLEAN, left : Int]
<1>1. Typed /\ Unmade /\ Given /\ Pipelines \subseteq Objects
  BY DEF BindInv, Objects
<1>2. Ended \in Streams /\ Ended.generator = "ended" /\ ~Ended.open
  <2>1. Closed \in Streams /\ ~Closed.open
    BY DEF Closed
  <2> QED BY <2>1 DEF Ended
<1>3. \A p \in Pipelines, t \in Threads : Holds(t, p) /\ thread[t].op = "next" =>
        stream[p].generator = "running"
  BY <1>1 DEF Given, Holds
<1>4. \A p \in Pipelines, t \in Threads : Holds(t, p) /\ thread[t].pc = "feed" =>
        stream[p].open /\ thread[t].op = "next"
  BY <1>1 DEF Given, Holds, BindInv, Frame
<1>5. ASSUME NEW t \in Threads, CallEncodeStream(t) PROVE BindInv'
  <2>1. PICK p \in Pipelines, chunks \in 0 .. 2 :
          /\ held[p] /\ stream[p].generator = "none"
          /\ stream' = [stream EXCEPT ![p] = [Closed EXCEPT !.generator = "created",
                                                            !.left = chunks]]
    BY <1>5 DEF CallEncodeStream
  <2>2. /\ ~exited /\ UNCHANGED <<lib, wrapper, held, native, thread, exited>>
    BY <1>5 DEF CallEncodeStream, At
  <2> DEFINE x == [Closed EXCEPT !.generator = "created", !.left = chunks]
  <2>3. x \in Streams /\ x.generator = "created" /\ ~x.open
    <3>1. Closed \in [generator : Generators, open : BOOLEAN, left : Int] /\ ~Closed.open
      BY DEF Closed, Generators
    <3>2. chunks \in Int /\ "created" \in Generators
      BY DEF Generators
    <3>3. x = [Closed EXCEPT !.generator = "created", !.left = chunks]
      OBVIOUS
    <3> HIDE DEF x
    <3>4. /\ x \in [generator : Generators, open : BOOLEAN, left : Int]
          /\ x.open = Closed.open /\ x.generator = "created"
      BY <3>1, <3>2, <3>3, StreamRecord
    <3> QED BY <3>1, <3>4 DEF Generators
  <2>4. stream' = [stream EXCEPT ![p] = x]
    BY <2>1
  <2> HIDE DEF x
  <2>5. native[p] # "none"
    BY <1>1, <2>1 DEF Unmade
  <2>6. \A u \in Threads : Holds(u, p)' => Holds(u, p)
    BY <2>2 DEF Holds, Active
  <2> QED BY ZenonT(60), <1>1, <1>3, <1>4, <2>1, <2>2, <2>3, <2>4, <2>5, <2>6, StreamKeeps DEF Typed
<1>6. CASE StreamCloses
  <2>1. PICK p \in Pipelines :
          /\ stream[p].generator \in {"created", "suspended"}
          /\ stream' = [stream EXCEPT ![p] = Ended]
    BY <1>6 DEF StreamCloses
  <2>2. /\ ~exited /\ UNCHANGED <<lib, wrapper, held, native, thread, exited>>
    BY <1>6 DEF StreamCloses
  <2>3. native[p] # "none"
    BY <1>1, <2>1 DEF Unmade
  <2>4. \A u \in Threads : Holds(u, p)' => Holds(u, p)
    BY <2>2 DEF Holds, Active
  <2> QED BY ZenonT(60), <1>1, <1>2, <1>3, <1>4, <2>1, <2>2, <2>3, <2>4, StreamKeeps DEF Typed
<1>7. ASSUME NEW t \in Threads, NEW p \in Pipelines, Frame(t), Active(t),
             thread[t].op = "next", thread[t].uses = {p}, ~exited,
             UNCHANGED <<lib, wrapper, held, native, exited>>,
             NEW x \in Streams, stream' = [stream EXCEPT ![p] = x],
             \/ /\ Done(t) /\ x.generator \in {"running", "suspended", "ended"}
                /\ x.open => x.generator # "ended"
             \/ /\ x.generator = "running" /\ x.open
                /\ \/ Goto(t, "feed")
                   \/ thread[t].pc = "feed" /\ UNCHANGED thread,
             x.open => wrapper[p].alive, thread[t].pc \in {"start", "feed"}
      PROVE  BindInv'
  <2>1. Holds(t, p) /\ stream[p].generator = "running"
    BY <1>3, <1>7 DEF Holds
  <2>2. native[p] # "none"
    BY <1>1, <2>1 DEF Unmade
  <2>3. \A u \in Threads \ {t} : Holds(u, p) => thread[u].op \notin {"next", "close"}
    BY <1>1, <1>7, <2>1 DEF BindInv, Exclusive
  <2>4. \A u \in Threads : ~Closing(u, p)
    BY <1>7, <2>3 DEF Closing
  <2>5. /\ DOMAIN thread' = Threads /\ \A u \in Threads \ {t} : thread'[u] = thread[u]
        /\ \/ thread'[t] = Idle
           \/ thread'[t] = [thread[t] EXCEPT !.pc = "feed"]
           \/ thread[t].pc = "feed" /\ thread'[t] = thread[t]
    BY <1>1, <1>7 DEF Done, Goto, Typed
  <2>6. CASE Done(t)
    <3>1. thread'[t] = Idle /\ ~Holds(t, p)'
      BY <1>1, <2>6 DEF Done, Typed, Holds, Active, Idle
    <3>2. \A u \in Threads : Holds(u, p)' => u # t /\ Holds(u, p)
      BY <2>5, <3>1 DEF Holds, Active
    <3>3. \A u \in Threads : ~(Holds(u, p)' /\ (thread[u].op = "next" \/ thread[u].pc = "feed"))
      BY <1>1, <1>4, <2>3, <3>2
    <3> QED BY ZenonT(60), <1>7, <2>1, <2>2, <2>4, <2>5, <3>1, <3>3, StreamKeeps
  <2>7. CASE ~Done(t) /\ lib = "bound"
    <3>1. /\ x.generator = "running" /\ x.open
          /\ \/ thread'[t] = thread[t]
             \/ thread'[t] = [thread[t] EXCEPT !.pc = "feed"]
      BY <1>1, <1>7, <2>7 DEF Goto, Typed
    <3>2. \/ thread'[t] = thread[t]
          \/ /\ Active(t)' /\ Frame(t)'
             /\ thread'[t].op = "next" /\ thread'[t].uses = {p}
      BY <1>7, <2>7, <3>1 DEF Active, Frame
    <3>3. \A u \in Threads : \/ thread'[u] = thread[u]
                             \/ thread'[u] = Idle /\ thread[u].op # "close"
                             \/ /\ Active(u) /\ Active(u)' /\ Frame(u)'
                                /\ thread'[u].op = thread[u].op /\ thread'[u].op = "next"
                                /\ thread'[u].uses = thread[u].uses
                                /\ thread'[u].pc = "feed" => thread[u].uses = {p} /\ x.open
      BY <1>7, <2>5, <3>1, <3>2
    <3> QED BY <1>7, <2>1, <2>2, <2>4, <2>5, <3>1, <3>3, StreamKeeps
  <2>8. lib = "bound" \/ Done(t)
    BY <1>7 DEF Frame
  <2> QED BY <2>6, <2>7, <2>8
<1>8. ASSUME NEW t \in Threads, StreamStarts(t) \/ StreamFeeds(t) PROVE BindInv'
  <2>1. /\ Active(t) /\ ~exited /\ UNCHANGED <<lib, wrapper, held, native, exited>>
        /\ thread[t].pc \in {"start", "feed"}
    BY <1>8 DEF StreamStarts, StreamFeeds, At, Active
  <2>2. Frame(t) /\ thread[t].op = "next"
    BY <1>8, <2>1 DEF StreamStarts, StreamFeeds, At, BindInv, Frame
  <2>3. PICK p \in Pipelines : thread[t].uses = {p} /\ Uses(t) = {p}
    BY <2>1, <2>2 DEF Frame, Uses, Active
  <2>4. stream[p] \in Streams /\ stream[p].generator = "running"
    BY <1>1, <1>3, <2>1, <2>2, <2>3 DEF Typed, Holds
  <2>5. stream[p].open => wrapper[p].alive
    BY <1>1, <2>1 DEF Given
  <2>6. CASE StreamStarts(t)
    <3>1. CASE stream[p].open
      <4>1. Goto(t, "feed") /\ stream' = [stream EXCEPT ![p] = stream[p]]
        BY <1>1, <2>3, <2>6, <3>1 DEF StreamStarts, Typed
      <4> QED BY <1>7, <2>1, <2>2, <2>3, <2>4, <2>5, <3>1, <4>1
    <3>2. CASE /\ wrapper[p].handle /\ Goto(t, "feed")
               /\ stream' = [stream EXCEPT ![p].open = TRUE]
      <4>1. wrapper[p].alive
        BY <2>1, <2>2, <2>3, <3>2, ReadIsLive
      <4> DEFINE x == [stream[p] EXCEPT !.open = TRUE]
      <4>2. x \in Streams /\ x.open /\ x.generator = "running"
        BY <2>4
      <4>3. stream' = [stream EXCEPT ![p] = x]
        BY <3>2
      <4> HIDE DEF x
      <4> QED BY <1>7, <2>1, <2>2, <2>3, <3>2, <4>1, <4>2, <4>3
    <3>3. CASE stream' = [stream EXCEPT ![p] = Ended] /\ Done(t)
      BY <1>2, <1>7, <2>1, <2>2, <2>3, <3>3
    <3> QED BY <2>3, <2>6, <3>1, <3>2, <3>3 DEF StreamStarts
  <2>7. CASE StreamFeeds(t)
    <3>1. stream[p].open /\ thread[t].pc = "feed"
      BY <1>4, <2>1, <2>3, <2>7 DEF StreamFeeds, At, Holds
    <3>2. CASE stream' = [stream EXCEPT ![p] = Ended] /\ Done(t)
      BY <1>2, <1>7, <2>1, <2>2, <2>3, <3>2
    <3>3. CASE ~(stream' = [stream EXCEPT ![p] = Ended] /\ Done(t))
      <4>1. PICK ids \in BOOLEAN :
              /\ stream' = [stream EXCEPT ![p].left = stream[p].left - 1,
                              ![p].generator = IF ids THEN "suspended" ELSE @]
              /\ IF ids THEN Done(t) ELSE UNCHANGED thread
        BY <2>3, <2>7, <3>3 DEF StreamFeeds
      <4> DEFINE x == [stream[p] EXCEPT !.left = stream[p].left - 1,
                                        !.generator = IF ids THEN "suspended" ELSE "running"]
      <4>2. stream' = [stream EXCEPT ![p] = x]
        <5>1. stream' = [stream EXCEPT ![p].left = stream[p].left - 1,
                                       ![p].generator = IF ids THEN "suspended" ELSE "running"]
          BY <2>4, <4>1
        <5> QED BY <1>1, <5>1, StreamAssigned DEF Typed
      <4>3. x \in Streams /\ x.open /\ x.generator = (IF ids THEN "suspended" ELSE "running")
        <5>1. /\ stream[p] \in [generator : Generators, open : BOOLEAN, left : Int]
              /\ stream[p].left - 1 \in Int
              /\ (IF ids THEN "suspended" ELSE "running") \in Generators
          BY <2>4 DEF Generators
        <5>2. x = [stream[p] EXCEPT !.left = stream[p].left - 1,
                                    !.generator = IF ids THEN "suspended" ELSE "running"]
          OBVIOUS
        <5> HIDE DEF x
        <5>3. /\ x \in [generator : Generators, open : BOOLEAN, left : Int]
              /\ x.open = stream[p].open
              /\ x.generator = (IF ids THEN "suspended" ELSE "running")
          BY <5>1, <5>2, StreamRecord
        <5> QED BY <3>1, <5>3 DEF Generators
      <4> HIDE DEF x
      <4> QED BY ZenonT(60), <1>7, <2>1, <2>2, <2>3, <2>5, <3>1, <4>1, <4>2, <4>3
    <3> QED BY <3>2, <3>3
  <2> QED BY <1>8, <2>6, <2>7
<1> QED BY <1>5, <1>6, <1>8

-----------------------------------------------------------------------------
\* A constructor returns; a wrapper is closed, dropped or collected; the program ends.
LEMMA ObjectSteps ==
  ASSUME BindInv,
         \/ \E t \in Threads : NewReturns(t) \/ Finalize(t) \/ CloseForgets(t)
         \/ DropReference \/ Collect \/ Exit
  PROVE  BindInv'
<1>1. /\ Typed /\ Exclusive /\ Unmade /\ Handles /\ Given /\ Pipelines \subseteq Objects
      /\ \A t \in Threads : Active(t) => Frame(t)
  BY DEF BindInv, Objects
<1>2. CASE DropReference
  <2>1. /\ UNCHANGED <<lib, wrapper, native, stream, thread, exited>>
        /\ held' \in [Objects -> BOOLEAN] /\ \A o \in Objects : held'[o] => held[o]
    BY <1>1, <1>2 DEF DropReference, Typed
  <2>2. /\ \A t \in Threads : Active(t)' <=> Active(t)
        /\ \A t \in Threads, o \in Objects :
             (Holds(t, o)' <=> Holds(t, o)) /\ (Closing(t, o)' <=> Closing(t, o))
    BY <2>1 DEF Active, Holds, Closing
  <2>3. \A o \in Objects : InReach(o)' => InReach(o)
    BY <2>1, <2>2 DEF InReach
  <2>4. Typed' /\ \A t \in Threads : Active(t)' => Frame(t)'
    BY <1>1, <2>1, <2>2 DEF Typed, Frame
  <2>5. Exclusive' /\ Unmade'
    BY <1>1, <2>1, <2>2 DEF Exclusive, Unmade
  <2>6. Handles'
    BY <1>1, <2>1, <2>2, <2>3 DEF Handles
  <2>7. Given'
    BY <1>1, <2>1, <2>2 DEF Given
  <2> QED BY <2>4, <2>5, <2>6, <2>7 DEF BindInv
<1>3. CASE Exit
  <2>1. /\ UNCHANGED <<lib, held, stream, thread>> /\ exited'
        /\ \A t \in Threads : thread[t].pc \in {"idle", "gave up"}
        /\ native' = [o \in Objects |-> IF wrapper[o].alive THEN "freed" ELSE native[o]]
        /\ wrapper' = [o \in Objects |-> [wrapper[o] EXCEPT !.alive = FALSE]]
    BY <1>3 DEF Exit
  <2>2. /\ \A t \in Threads : Active(t)' <=> Active(t)
        /\ \A t \in Threads, o \in Objects : Holds(t, o)' <=> Holds(t, o)
    BY <2>1 DEF Active, Holds
  <2>3. \A o \in Objects : /\ ~wrapper'[o].alive
                           /\ wrapper'[o].handle <=> wrapper[o].handle
                           /\ wrapper'[o] \in [handle : BOOLEAN, alive : BOOLEAN]
    BY <1>1, <2>1 DEF Typed
  <2>4. \A o \in Objects : /\ native'[o] = "none" <=> native[o] = "none"
                           /\ native'[o] \in {"none", "freed"}
    BY <1>1, <2>1 DEF Typed, Handles
  <2>5. Typed' /\ \A t \in Threads : Active(t)' => Frame(t)'
    BY ZenonT(60), <1>1, <2>1, <2>2, <2>3, <2>4 DEF Typed, Frame
  <2>6. Exclusive' /\ Unmade'
    BY ZenonT(60), <1>1, <2>1, <2>2, <2>3, <2>4 DEF Exclusive, Unmade
  <2>7. Handles'
    BY <2>1, <2>3, <2>4 DEF Handles
  <2>8. Given'
    BY <1>1, <2>1, <2>2 DEF Given
  <2> QED BY <2>5, <2>6, <2>7, <2>8 DEF BindInv
\* The finalizer of an object runs, when nothing but closes can reach it.
<1>4. ASSUME NEW o \in Objects, wrapper[o].alive, Release(o), ~exited,
             UNCHANGED <<lib, held, stream, exited>>, DOMAIN thread' = Threads,
             \A t \in Threads : Holds(t, o) => Closing(t, o),
             o \in Pipelines => ~stream[o].open,
             InReach(o) => \E t \in Threads : Closing(t, o)',
             \A t \in Threads : \/ thread'[t] = thread[t]
                                \/ /\ Active(t) /\ Active(t)' /\ Frame(t)'
                                   /\ thread'[t].op = thread[t].op
                                   /\ thread'[t].uses = thread[t].uses
                                   /\ thread'[t].pc = "forget"
      PROVE  BindInv'
  <2>1. /\ \A t \in Threads : Active(t)' <=> Active(t)
        /\ \A t \in Threads : Active(t) =>
             thread'[t].op = thread[t].op /\ thread'[t].uses = thread[t].uses
    BY <1>4 DEF Active
  <2>2. \A t \in Threads, u \in Objects :
          (Holds(t, u)' <=> Holds(t, u)) /\ (Closing(t, u)' <=> Closing(t, u))
    BY <2>1 DEF Holds, Closing
  <2>3. /\ native'[o] = "freed" /\ ~wrapper'[o].alive /\ native[o] = "live"
        /\ \A u \in Objects \ {o} : wrapper'[u] = wrapper[u] /\ native'[u] = native[u]
        /\ \A u \in Objects : wrapper'[u].handle <=> wrapper[u].handle
    BY ZenonT(60), <1>1, <1>4 DEF Release, Typed, Handles
  <2>4. /\ wrapper' \in [Objects -> [handle : BOOLEAN, alive : BOOLEAN]]
        /\ native' \in [Objects -> {"none", "live", "freed"}]
    <3>1. wrapper' \in [Objects -> [handle : BOOLEAN, alive : BOOLEAN]]
      BY ZenonT(60), <1>1, <1>4 DEF Release, Typed
    <3>2. native' = [native EXCEPT ![o] = "freed"]
      BY <1>4, <2>3 DEF Release
    <3> QED BY <1>1, <3>1, <3>2 DEF Typed
  <2>5. Typed'
    BY <1>1, <1>4, <2>4 DEF Typed, Frame
  <2>6. \A t \in Threads : Active(t)' => Frame(t)'
    BY <1>1, <1>4, <2>1 DEF Frame
  <2>7. Exclusive'
    BY <1>1, <2>1, <2>2 DEF Exclusive, Holds
  <2>8. Unmade'
    BY <1>1, <1>4, <2>1, <2>2, <2>3 DEF Unmade, Holds
  <2>9. Handles'
    <3>1. \A u \in Objects : InReach(u)' <=> InReach(u)
      BY <1>4, <2>2 DEF InReach
    <3> QED BY <1>1, <1>4, <2>2, <2>3, <3>1 DEF Handles
  <2>10. Given'
    <3>1. ASSUME NEW t \in Threads, thread'[t].pc \in {"size", "native"},
                 thread'[t].op # "new", NEW u \in thread'[t].uses
          PROVE  wrapper'[u].alive
      <4>1. thread'[t] = thread[t] /\ Active(t) /\ thread[t].op # "close"
        BY <1>1, <1>4, <3>1 DEF Active, Frame
      <4>2. u \in Objects /\ Holds(t, u) /\ wrapper[u].alive
        BY <1>1, <3>1, <4>1 DEF Given, Frame, Holds
      <4>3. u # o
        BY <1>4, <4>1, <4>2 DEF Closing
      <4> QED BY <2>3, <4>2, <4>3
    <3>2. \A t \in Threads : thread'[t].pc = "feed" => \A p \in thread'[t].uses : stream'[p].open
      BY ZenonT(60), <1>1, <1>4 DEF Given
    <3>3. \A t \in Threads : Active(t)' /\ thread'[t].op = "next" =>
            \A p \in thread'[t].uses : stream'[p].generator = "running"
      BY <1>1, <1>4, <2>1 DEF Given
    <3>4. \A p \in Pipelines : stream'[p].open =>
            /\ stream'[p].generator \in {"running", "suspended"}
            /\ wrapper'[p].alive /\ \A t \in Threads : ~Closing(t, p)'
      BY <1>1, <1>4, <2>2, <2>3 DEF Given
    <3> QED BY <1>4, <3>1, <3>2, <3>3, <3>4 DEF Given
  <2> QED BY <2>5, <2>6, <2>7, <2>8, <2>9, <2>10 DEF BindInv
<1>5. CASE Collect
  <2>1. PICK o \in Objects : Garbage(o) /\ Release(o)
    BY <1>5 DEF Collect
  <2>2. UNCHANGED <<lib, held, stream, thread, exited>> /\ ~exited
    BY <1>5 DEF Collect
  <2>3. wrapper[o].alive /\ ~InReach(o) /\ \A t \in Threads : ~Holds(t, o)
    BY <2>1 DEF Garbage, InReach, Holds, Uses, Active
  <2>4. o \in Pipelines => ~stream[o].open
    BY <1>1, <2>1 DEF Garbage, Given
  <2> QED BY <1>1, <1>4, <2>1, <2>2, <2>3, <2>4 DEF Typed
<1>6. ASSUME NEW t \in Threads, Finalize(t) PROVE BindInv'
  <2>1. /\ thread[t].pc = "finalize" /\ ~exited /\ Active(t) /\ Goto(t, "forget")
        /\ UNCHANGED <<lib, held, stream, exited>>
    BY <1>6 DEF Finalize, At, Active
  <2>2. Frame(t) /\ thread[t].op = "close"
    BY <1>1, <2>1 DEF Frame
  <2>3. PICK o \in Objects : thread[t].uses = {o} /\ Uses(t) = {o}
    BY <2>1, <2>2 DEF Frame, Uses, Active
  <2>4. /\ OnlyThread(t) /\ Active(t)' /\ Frame(t)'
        /\ thread'[t].op = thread[t].op /\ thread'[t].uses = thread[t].uses
        /\ thread'[t].pc = "forget"
    BY <1>1, <2>1, <2>2 DEF Goto, OnlyThread, Active, Frame, Typed
  <2>5. CASE wrapper[o].alive
    <3>1. Release(o)
      BY <1>6, <2>3, <2>5 DEF Finalize
    <3>2. \A u \in Threads : Holds(u, o) => Closing(u, o)
      BY <1>1, <2>1, <2>2, <2>3 DEF Exclusive, Holds, Closing
    <3>3. Closing(t, o) /\ Closing(t, o)'
      BY <2>1, <2>2, <2>3, <2>4 DEF Closing, Holds
    <3>4. o \in Pipelines => ~stream[o].open
      BY <1>1, <2>1, <3>3 DEF Given
    <3> QED BY <1>4, <2>1, <2>4, <2>5, <3>1, <3>2, <3>3, <3>4 DEF OnlyThread
  <2>6. CASE ~wrapper[o].alive
    <3>1. UNCHANGED <<wrapper, native>>
      BY <1>6, <2>3, <2>6 DEF Finalize
    <3> QED BY <2>1, <2>4, <3>1, MoveKeeps
  <2> QED BY <2>5, <2>6
<1>7. ASSUME NEW t \in Threads, CloseForgets(t) PROVE BindInv'
  <2>1. /\ thread[t].pc = "forget" /\ ~exited /\ Active(t) /\ Done(t)
        /\ UNCHANGED <<lib, held, native, stream, exited>>
    BY <1>7 DEF CloseForgets, At, Active
  <2>2. Frame(t) /\ thread[t].op = "close" /\ Uses(t) = thread[t].uses
    BY <1>1, <2>1 DEF Frame, Uses, Active
  <2>3. /\ DOMAIN thread' = Threads /\ thread'[t] = Idle /\ ~Active(t)'
        /\ \A u \in Threads \ {t} : thread'[u] = thread[u]
        /\ thread'[t].pc = "idle" /\ "pc" \in DOMAIN thread'[t]
    BY <1>1, <2>1 DEF Done, Typed, Active, Idle
  <2>4. /\ \A u \in Threads, o \in Objects : Holds(u, o)' => u # t /\ Holds(u, o)
        /\ \A u \in Threads, o \in Objects : Closing(u, o)' => Closing(u, o)
        /\ \A u \in Threads \ {t}, o \in Objects : Closing(u, o) => Closing(u, o)'
        /\ \A o \in Objects : Closing(t, o) <=> o \in thread[t].uses
    BY <2>1, <2>2, <2>3 DEF Holds, Closing, Active
  <2>5. \A o \in Objects :
          /\ wrapper'[o] \in [handle : BOOLEAN, alive : BOOLEAN]
          /\ wrapper'[o].alive <=> wrapper[o].alive
          /\ wrapper'[o].handle => wrapper[o].handle /\ o \notin thread[t].uses
    BY ZenonT(60), <1>1, <1>7, <2>2 DEF CloseForgets, Typed
  <2>6. wrapper' \in [Objects -> [handle : BOOLEAN, alive : BOOLEAN]]
    BY <1>7, <2>5 DEF CloseForgets
  <2>7. Typed' /\ \A u \in Threads : Active(u)' => Frame(u)'
    BY <1>1, <2>1, <2>3, <2>6 DEF Typed, Frame, Active
  <2>8. Exclusive' /\ Unmade'
    BY <1>1, <2>1, <2>3, <2>4, <2>5 DEF Exclusive, Unmade
  <2>9. Handles'
    <3>1. \A o \in Objects : InReach(o)' => InReach(o)
      BY <2>1, <2>4 DEF InReach
    <3> QED BY <1>1, <2>1, <2>4, <2>5, <3>1 DEF Handles
  <2>10. Given'
    <3>1. ASSUME NEW u \in Threads, thread'[u].pc \in {"size", "native"}, thread'[u].op # "new",
                 NEW o \in thread'[u].uses
          PROVE  wrapper'[o].alive
      <4>1. thread'[u] = thread[u] /\ Active(u)
        BY <2>3, <3>1 DEF Active
      <4>2. o \in Objects /\ wrapper[o].alive
        BY <1>1, <3>1, <4>1 DEF Given, Frame
      <4> QED BY <2>5, <4>2
    <3>2. \A u \in Threads : thread'[u].pc = "feed" => \A p \in thread'[u].uses : stream'[p].open
      BY ZenonT(60), <1>1, <2>1, <2>3 DEF Given
    <3>3. ASSUME NEW u \in Threads, Active(u)', thread'[u].op = "next", NEW p \in thread'[u].uses
          PROVE  stream'[p].generator = "running"
      <4>1. thread'[u] = thread[u] /\ Active(u)
        BY <2>3, <3>3 DEF Active
      <4> QED BY <1>1, <2>1, <3>3, <4>1 DEF Given
    <3>4. \A p \in Pipelines : stream'[p].open =>
            /\ stream'[p].generator \in {"running", "suspended"}
            /\ wrapper'[p].alive /\ \A u \in Threads : ~Closing(u, p)'
      BY <1>1, <2>1, <2>4, <2>5 DEF Given
    <3> QED BY <2>1, <3>1, <3>2, <3>3, <3>4 DEF Given
  <2> QED BY <2>7, <2>8, <2>9, <2>10 DEF BindInv
<1>8. ASSUME NEW t \in Threads, NewReturns(t) PROVE BindInv'
  <2>1. /\ thread[t].pc = "native" /\ thread[t].op = "new" /\ ~exited /\ Active(t) /\ Done(t)
        /\ UNCHANGED <<lib, stream, exited>>
    BY <1>8 DEF NewReturns, At, Active
  <2>2. PICK o \in Objects : thread[t].uses = {o} /\ Uses(t) = {o}
    BY <1>1, <2>1 DEF Frame, Uses, Active
  <2>3. CASE UNCHANGED <<wrapper, native, held>>
    BY <2>1, <2>3, LeaveKeeps
  <2>4. CASE /\ wrapper' = [wrapper EXCEPT ![o] = [handle |-> TRUE, alive |-> TRUE]]
             /\ native' = [native EXCEPT ![o] = "live"]
             /\ held' = [held EXCEPT ![o] = TRUE]
    <3>1. /\ DOMAIN thread' = Threads /\ thread'[t] = Idle /\ ~Active(t)'
          /\ \A u \in Threads \ {t} : thread'[u] = thread[u]
          /\ thread'[t].pc = "idle" /\ "pc" \in DOMAIN thread'[t]
      BY <1>1, <2>1 DEF Done, Typed, Active, Idle
    <3>2. Holds(t, o) /\ native[o] = "none" /\ \A u \in Threads \ {t} : ~Holds(u, o)
      BY <1>1, <2>1, <2>2 DEF Holds, Unmade, Exclusive
    <3>3. /\ \A u \in Threads, v \in Objects : Holds(u, v)' => u # t /\ v # o /\ Holds(u, v)
          /\ \A u \in Threads, v \in Objects : Closing(u, v)' => Closing(u, v)
          /\ \A u \in Threads, v \in Objects : Closing(u, v) => Closing(u, v)'
      BY <2>1, <3>1, <3>2 DEF Holds, Closing, Active
    <3>4. /\ wrapper'[o].handle /\ wrapper'[o].alive /\ native'[o] = "live" /\ held'[o]
          /\ \A v \in Objects \ {o} : /\ wrapper'[v] = wrapper[v] /\ native'[v] = native[v]
                                      /\ held'[v] = held[v]
          /\ wrapper' \in [Objects -> [handle : BOOLEAN, alive : BOOLEAN]]
          /\ native' \in [Objects -> {"none", "live", "freed"}]
          /\ held' \in [Objects -> BOOLEAN]
      BY <1>1, <2>4 DEF Typed
    <3>5. Typed' /\ \A u \in Threads : Active(u)' => Frame(u)'
      <4>1. Typed'
        BY <1>1, <2>1, <3>1, <3>4 DEF Typed
      <4>2. \A u \in Threads : Active(u)' => thread'[u] = thread[u] /\ Active(u)
        BY <3>1 DEF Active
      <4> QED BY <1>1, <2>1, <4>1, <4>2 DEF Frame
    <3>6. Exclusive'
      BY <1>1, <3>1, <3>3 DEF Exclusive
    <3>7. Unmade'
      BY <1>1, <2>1, <3>1, <3>3, <3>4 DEF Unmade
    <3>8. Handles'
      <4>1. \A v \in Objects \ {o} : InReach(v)' => InReach(v)
        BY <2>1, <3>3, <3>4 DEF InReach
      <4> QED BY <1>1, <2>1, <3>3, <3>4, <4>1 DEF Handles
    <3>9. Given'
      <4>1. ASSUME NEW u \in Threads, thread'[u].pc \in {"size", "native"},
                   thread'[u].op # "new", NEW v \in thread'[u].uses
            PROVE  wrapper'[v].alive
        <5>1. thread'[u] = thread[u] /\ Active(u)
          BY <3>1, <4>1 DEF Active
        <5>2. v \in Objects /\ wrapper[v].alive
          BY <1>1, <4>1, <5>1 DEF Given, Frame
        <5> QED BY <3>4, <5>2
      <4>2. \A u \in Threads :
              thread'[u].pc = "feed" => \A p \in thread'[u].uses : stream'[p].open
        BY ZenonT(60), <1>1, <2>1, <3>1 DEF Given
      <4>3. ASSUME NEW u \in Threads, Active(u)', thread'[u].op = "next",
                   NEW p \in thread'[u].uses
            PROVE  stream'[p].generator = "running"
        <5>1. thread'[u] = thread[u] /\ Active(u)
          BY <3>1, <4>3 DEF Active
        <5> QED BY <1>1, <2>1, <4>3, <5>1 DEF Given
      <4>4. \A p \in Pipelines : stream'[p].open =>
              /\ stream'[p].generator \in {"running", "suspended"}
              /\ wrapper'[p].alive /\ \A u \in Threads : ~Closing(u, p)'
        BY <1>1, <2>1, <3>3, <3>4 DEF Given
      <4> QED BY <2>1, <4>1, <4>2, <4>3, <4>4 DEF Given
    <3> QED BY <3>5, <3>6, <3>7, <3>8, <3>9 DEF BindInv
  <2> QED BY <1>8, <2>2, <2>3, <2>4 DEF NewReturns
<1> QED BY <1>2, <1>3, <1>5, <1>6, <1>7, <1>8

\* Every step keeps the invariant.
LEMMA BindStep == BindInv /\ [BindingNext]_bindingVars => BindInv'
<1> SUFFICES ASSUME BindInv, [BindingNext]_bindingVars PROVE BindInv'
  OBVIOUS
<1>1. ASSUME NEW t \in Threads, Runs(t) \/ Calls(t) PROVE BindInv'
  BY <1>1, MethodSteps, CallSteps, StreamSteps, ObjectSteps DEF Runs, Calls
<1>2. CASE StreamCloses \/ DropReference \/ Collect \/ Exit
  BY <1>2, StreamSteps, ObjectSteps
<1>3. CASE Exited \/ UNCHANGED bindingVars
  <2>1. UNCHANGED bindingVars
    BY <1>3 DEF Exited
  <2>2. UNCHANGED <<lib, wrapper, held, native, stream, thread, exited>>
    BY <2>1 DEF bindingVars
  <2>3. /\ \A t \in Threads : (Active(t)' <=> Active(t)) /\ (Frame(t)' <=> Frame(t))
        /\ \A t, o : (Holds(t, o)' <=> Holds(t, o)) /\ (Closing(t, o)' <=> Closing(t, o))
    BY <2>2 DEF Active, Frame, Holds, Closing
  <2>4. \A o : InReach(o)' <=> InReach(o)
    BY <2>2, <2>3 DEF InReach
  <2>5. Typed' /\ Exclusive' /\ Unmade'
    BY <2>2, <2>3 DEF BindInv, Typed, Exclusive, Unmade
  <2>6. Handles'
    BY <2>2, <2>3, <2>4 DEF BindInv, Handles
  <2>7. Given'
    BY <2>2, <2>3 DEF BindInv, Given
  <2> QED BY <2>3, <2>5, <2>6, <2>7 DEF BindInv
<1> QED BY <1>1, <1>2, <1>3 DEF BindingNext

\* What the library is given is live, through bound signatures, whatever the threads
\* call, close and drop.
THEOREM LiveHandles == BindingSpec => []CallsGetLiveHandles
<1>1. BindInv => CallsGetLiveHandles
  <2> SUFFICES ASSUME BindInv, NEW t \in Threads, thread[t].pc \in {"size", "native", "feed"}
               PROVE  /\ lib = "bound"
                      /\ thread[t].op # "new" => \A o \in Uses(t) : native[o] = "live"
    BY DEF CallsGetLiveHandles
  <2>1. Frame(t) /\ Active(t) /\ Uses(t) = thread[t].uses /\ Handles /\ Given
    BY DEF BindInv, Active, Uses
  <2>2. lib = "bound" /\ thread[t].op # "close"
    BY <2>1 DEF Frame
  <2>3. ASSUME thread[t].op # "new", NEW o \in thread[t].uses PROVE wrapper[o].alive
    <3>1. CASE thread[t].pc = "feed"
      <4>1. ~exited
        BY <2>1, <3>1 DEF Given
      <4>2. o \in Pipelines /\ stream[o].open
        BY <2>1, <2>3, <3>1 DEF Frame, Given
      <4> QED BY <2>1, <4>1, <4>2 DEF Given
    <3> QED BY <2>1, <2>3, <3>1 DEF Given
  <2>4. \A o \in thread[t].uses : o \in Objects
    BY <2>1 DEF Frame
  <2> QED BY <2>1, <2>2, <2>3, <2>4 DEF Handles
<1> QED BY BindInit, BindStep, <1>1, PTL DEF BindingSpec

\* Every handle is freed once, whoever closes it, collects it or exits first, and a
\* stream never outlives the generator that would close it.
THEOREM FreedOnceCorrect == BindingSpec => []FreedOnce
<1>1. BindInv => FreedOnce
  <2> SUFFICES ASSUME BindInv PROVE FreedOnce
    OBVIOUS
  <2>1. \A t \in Threads : thread[t].pc = "return" => thread[t].buffers = 0
    BY DEF BindInv, Active, Frame
  <2> QED BY <2>1 DEF BindInv, FreedOnce, Typed, Handles, Given
<1> QED BY BindInit, BindStep, <1>1, PTL DEF BindingSpec

-----------------------------------------------------------------------------
(* encode: each try has twice the room of the one before it.               *)

\* Size times a power of two, which is what an expansion of a text is compared with.
PowersOfTwo(power) ==
  power \in [Nat -> Nat] /\ power[0] = 1 /\ \A n \in Nat : power[n + 1] = 2 * power[n]

\* The texts take no more room than the last try has.
Encodable(power) ==
  \A x \in Texts : /\ x.size \in Nat /\ x.tokens \in Nat /\ x.room \in Nat
                   /\ x.room <= power[Tries - 1] * x.size

\* What a thread that encodes knows of its tries.
Trying(f, power) ==
  /\ f.pc # "gave up"
  /\ f.pc # "idle" /\ f.op = "encode" =>
       /\ {"pc", "op", "uses", "buffers", "text", "tries", "cap"} \subseteq DOMAIN f
       /\ f.pc \in {"load", "bind", "start", "native", "copy", "return"}
       /\ f.pc \in {"load", "bind", "start"} => f.tries = 0
       /\ f.pc = "native" => /\ f.text \in Texts /\ f.tries \in 0 .. Tries - 1
                             /\ f.cap \in Nat /\ f.cap >= power[f.tries] * f.text.size

TryInv(power) ==
  DOMAIN thread = Threads /\ \A t \in Threads : Trying(thread[t], power)

\* Twice the room is as much as the next power needs.
LEMMA TwiceTheRoom ==
  ASSUME NEW c \in Nat, NEW d \in Nat, NEW p \in Nat, NEW q \in Nat, NEW s \in Nat,
         q = 2 * p, c >= p * s, d >= 2 * c
  PROVE  d >= q * s
<1> DEFINE x == p * s
<1>1. q * s = 2 * x /\ x \in Nat
  OBVIOUS
<1> HIDE DEF x
<1>2. d >= 2 * x
  <2>1. c >= x
    BY DEF x
  <2> QED BY <1>1, <2>1
<1> QED BY <1>1, <1>2

\* A step of one thread that leaves it trying.
LEMMA OneTries ==
  ASSUME NEW power, TryInv(power), NEW t \in Threads, NEW f, Trying(f, power),
         thread' = [thread EXCEPT ![t] = f]
  PROVE  TryInv(power)'
BY DEF TryInv, Trying

\* A thread that moves on within an operation, not to another try.
LEMMA MovesOn ==
  ASSUME NEW power, TryInv(power), NEW t \in Threads, NEW a, thread[t].pc # "idle",
         Goto(t, a), a \notin {"gave up", "idle"}, {"pc", "op"} \subseteq DOMAIN thread[t],
         thread[t].op = "encode" => /\ a \in {"load", "bind", "start", "copy", "return"}
                                    /\ thread[t].pc \in {"load", "bind", "start"}
  PROVE  TryInv(power)'
<1> DEFINE f == [thread[t] EXCEPT !.pc = a]
<1>1. thread' = [thread EXCEPT ![t] = f]
  BY DEF TryInv, Goto
<1>2. /\ f.pc = a /\ f.op = thread[t].op /\ DOMAIN f = DOMAIN thread[t]
      /\ "tries" \in DOMAIN thread[t] => f.tries = thread[t].tries
  <2> DEFINE g == thread[t]
  <2>1. {"pc", "op"} \subseteq DOMAIN g
    OBVIOUS
  <2> HIDE DEF g
  <2>2. [g EXCEPT !.pc = a].pc = a /\ [g EXCEPT !.pc = a].op = g.op
        /\ DOMAIN [g EXCEPT !.pc = a] = DOMAIN g
        /\ ("tries" \in DOMAIN g => [g EXCEPT !.pc = a].tries = g.tries)
    BY <2>1
  <2> QED BY <2>2 DEF g
<1>3. Trying(f, power)
  BY <1>2 DEF TryInv, Trying
<1> HIDE DEF f
<1> QED BY <1>1, <1>3, OneTries

\* A thread that comes back from an operation.
LEMMA ComesBack ==
  ASSUME NEW power, TryInv(power), NEW t \in Threads, Done(t)
  PROVE  TryInv(power)'
<1>1. Trying(Idle, power)
  BY DEF Trying, Idle
<1> QED BY <1>1, OneTries DEF Done

\* A thread that calls something.
LEMMA CallsFirst ==
  ASSUME NEW power, TryInv(power), NEW t \in Threads, NEW op, NEW uses, Called(t, op, uses)
  PROVE  TryInv(power)'
<1> DEFINE f == [pc |-> IF lib = "none" THEN "load" ELSE "start", op |-> op, uses |-> uses,
                 cap |-> 0, tries |-> 0, text |-> CHOOSE x \in Texts : TRUE, buffers |-> 0]
<1>1. Trying(f, power)
  BY DEF Trying
<1>2. thread' = [thread EXCEPT ![t] = f]
  BY DEF Called
<1> HIDE DEF f
<1> QED BY <1>1, <1>2, OneTries

\* A method that begins has a first buffer of the size of its text.
LEMMA StartTries ==
  ASSUME NEW power, PowersOfTwo(power), Encodable(power), Tries \in Nat \ {0}, Headroom \in Nat,
         MinCap \in Nat, BindInv, TryInv(power), NEW t \in Threads, StartMethod(t)
  PROVE  TryInv(power)'
<1>1. CASE Done(t)
  BY <1>1, ComesBack
<1>2. ASSUME NEW text \in Texts, NEW a, a = IF thread[t].op \in Sized THEN "size" ELSE "native",
             thread' = [thread EXCEPT ![t].pc = a, ![t].text = text, ![t].cap = FirstCap(text)]
      PROVE  TryInv(power)'
  <2> DEFINE f == [thread[t] EXCEPT !.pc = a, !.text = text, !.cap = FirstCap(text)]
  <2>1. thread[t].pc = "start" /\ Frame(t) /\ Trying(thread[t], power)
    BY DEF StartMethod, At, BindInv, Active, TryInv
  <2>2. thread' = [thread EXCEPT ![t] = f]
    BY <1>2 DEF TryInv
  <2>3. DOMAIN f = DOMAIN thread[t] /\ f.op = thread[t].op /\ f.pc = a
    BY <2>1 DEF Frame
  <2>4. CASE thread[t].op # "encode"
    <3>1. Trying(f, power)
      BY <1>2, <2>3, <2>4 DEF Trying
    <3> HIDE DEF f
    <3> QED BY <2>2, <3>1, OneTries
  <2>5. CASE thread[t].op = "encode"
    <3>1. /\ {"pc", "op", "uses", "buffers", "text", "tries", "cap"} \subseteq DOMAIN thread[t]
          /\ thread[t].tries = 0
      BY <2>1, <2>5 DEF Trying
    <3>2. f.tries = 0 /\ f.text = text /\ f.cap = FirstCap(text)
      BY <3>1
    <3>3. a = "native"
      BY <1>2, <2>5 DEF Sized
    <3>4. FirstCap(text) \in Nat /\ FirstCap(text) >= power[0] * text.size
      <4>1. text.size \in Nat
        BY DEF Encodable
      <4>2. power[0] * text.size = text.size
        BY <4>1 DEF PowersOfTwo
      <4> QED BY <4>1, <4>2 DEF FirstCap
    <3>5. Trying(f, power)
      <4> HIDE DEF f
      <4> QED BY <2>3, <2>5, <3>1, <3>2, <3>3, <3>4 DEF Trying
    <3> HIDE DEF f
    <3> QED BY <2>2, <3>5, OneTries
  <2> QED BY <2>4, <2>5
<1> QED BY <1>1, <1>2 DEF StartMethod

\* A try that had too little room is not the last one.
LEMMA EncodeTries ==
  ASSUME NEW power, PowersOfTwo(power), Encodable(power), Tries \in Nat \ {0}, Headroom \in Nat,
         BindInv, TryInv(power), NEW t \in Threads, EncodeReturns(t)
  PROVE  TryInv(power)'
<1> DEFINE call == thread[t]
<1>1. CASE Done(t)
  BY <1>1, ComesBack
<1>2. ASSUME call.cap < call.text.room,
             thread' = [thread EXCEPT
                 ![t].pc = IF call.tries + 1 < Tries THEN "native" ELSE "gave up",
                 ![t].tries = @ + 1, ![t].cap = Grown(call.cap, call.text)]
      PROVE  TryInv(power)'
  <2> DEFINE a == IF call.tries + 1 < Tries THEN "native" ELSE "gave up"
             d == Grown(call.cap, call.text)
             f == [call EXCEPT !.pc = a, !.tries = @ + 1, !.cap = d]
  <2>1. /\ call.pc = "native" /\ call.op = "encode"
        /\ {"pc", "op", "uses", "buffers", "text", "tries", "cap"} \subseteq DOMAIN call
        /\ call.text \in Texts /\ call.tries \in 0 .. Tries - 1
        /\ call.cap \in Nat /\ call.cap >= power[call.tries] * call.text.size
    BY DEF EncodeReturns, At, TryInv, Trying
  <2>2. thread' = [thread EXCEPT ![t] = f]
    BY <1>2 DEF TryInv
  <2>3. /\ DOMAIN f = DOMAIN call /\ f.op = "encode" /\ f.pc = a
        /\ f.text = call.text /\ f.tries = call.tries + 1 /\ f.cap = d
    BY <2>1
  <2> DEFINE x == call.text
             k == call.tries
  <2>4. /\ x.size \in Nat /\ x.tokens \in Nat /\ x.room \in Nat
        /\ x.room <= power[Tries - 1] * x.size
    BY <2>1 DEF Encodable
  <2>5. k # Tries - 1
    <3> SUFFICES ASSUME k = Tries - 1 PROVE FALSE
      OBVIOUS
    <3> DEFINE y == power[Tries - 1] * x.size
    <3>1. call.cap >= y /\ x.room <= y
      BY <2>1, <2>4
    <3>2. y \in Nat
      BY <2>4 DEF PowersOfTwo
    <3>3. call.cap \in Nat /\ x.room \in Nat /\ call.cap < x.room
      BY <1>2, <2>1, <2>4
    <3> HIDE DEF y, x
    <3> QED BY <3>1, <3>2, <3>3
  <2>6. k \in Nat /\ k + 1 \in 0 .. Tries - 1 /\ a = "native"
    BY <2>1, <2>5
  <2>7. d \in Nat /\ d >= 2 * call.cap
    BY <2>1, <2>4 DEF Grown
  <2>8. d >= power[k + 1] * x.size
    <3>1. power[k] \in Nat /\ power[k + 1] \in Nat /\ power[k + 1] = 2 * power[k]
      BY <2>6 DEF PowersOfTwo
    <3>2. call.cap \in Nat /\ call.cap >= power[k] * x.size
      BY <2>1
    <3> HIDE DEF d, k, x
    <3> QED BY <2>4, <2>7, <3>1, <3>2, TwiceTheRoom
  <2>9. Trying(f, power)
    <3> HIDE DEF f, d
    <3> QED BY <2>1, <2>3, <2>6, <2>7, <2>8 DEF Trying
  <2> HIDE DEF f
  <2> QED BY <2>2, <2>9, OneTries
<1> QED BY <1>1, <1>2 DEF EncodeReturns

\* Every step of a thread leaves those that encode with tries to come.
LEMMA TryStep ==
  ASSUME NEW power, PowersOfTwo(power), Encodable(power), Tries \in Nat \ {0}, Headroom \in Nat,
         MinCap \in Nat, BindInv, TryInv(power), [BindingNext]_bindingVars
  PROVE  TryInv(power)'
<1>1. CASE UNCHANGED thread
  BY <1>1 DEF TryInv, Trying
<1>2. ASSUME NEW t \in Threads, Runs(t) PROVE TryInv(power)'
  <2>1. Trying(thread[t], power) /\ (thread[t].pc # "idle" => Frame(t)) /\ "pc" \in DOMAIN thread[t]
    BY DEF TryInv, BindInv, Active, Typed
  <2>2. CASE LoadLibrary(t)
    <3>1. thread[t].pc = "load" /\ {"pc", "op"} \subseteq DOMAIN thread[t]
      BY <2>1, <2>2 DEF LoadLibrary, At, Frame
    <3>2. Goto(t, "bind") \/ Done(t)
      BY <2>2 DEF LoadLibrary
    <3> QED BY <3>1, <3>2, ComesBack, MovesOn
  <2>3. CASE Bind(t)
    <3>1. thread[t].pc = "bind" /\ {"pc", "op"} \subseteq DOMAIN thread[t]
      BY <2>1, <2>3 DEF Bind, At, Frame
    <3>2. Goto(t, "start")
      BY <2>3 DEF Bind
    <3> QED BY <3>1, <3>2, MovesOn
  <2>4. CASE StartMethod(t)
    BY <2>4, StartTries
  <2>5. CASE NewReturns(t) \/ MethodReturns(t) \/ Returns(t)
    BY <2>5, ComesBack DEF NewReturns, MethodReturns, Returns
  <2>6. CASE SizeReturns(t)
    <3>1. /\ thread[t].pc = "size" /\ {"pc", "op"} \subseteq DOMAIN thread[t]
          /\ thread[t].op # "encode"
      BY <2>1, <2>6 DEF SizeReturns, At, Frame, Trying
    <3>2. Goto(t, "native") \/ Done(t)
      BY <2>6 DEF SizeReturns
    <3> QED BY <3>1, <3>2, ComesBack, MovesOn
  <2>7. CASE EncodeReturns(t)
    BY <2>7, EncodeTries
  <2>8. CASE BuffersReturn(t)
    <3>1. PICK n \in 0 .. 2 : thread' = [thread EXCEPT ![t].pc = "copy", ![t].buffers = n]
      BY <2>8 DEF BuffersReturn
    <3> DEFINE f == [thread[t] EXCEPT !.pc = "copy", !.buffers = n]
    <3>2. thread' = [thread EXCEPT ![t] = f]
      BY <3>1 DEF TryInv
    <3>3. f.pc = "copy" /\ f.op # "encode"
      BY <2>1, <2>8 DEF BuffersReturn, At, Buffered, Frame
    <3>4. Trying(f, power)
      BY <3>3 DEF Trying
    <3> HIDE DEF f
    <3> QED BY <3>2, <3>4, OneTries
  <2>9. CASE CopyOut(t)
    <3> DEFINE f == [thread[t] EXCEPT !.pc = "return", !.buffers = 0]
    <3>1. thread' = [thread EXCEPT ![t] = f]
      BY <2>9 DEF CopyOut, TryInv
    <3>2. f.pc = "return" /\ f.op = thread[t].op /\ DOMAIN f = DOMAIN thread[t]
      BY <2>1, <2>9 DEF CopyOut, At, Frame
    <3>3. Trying(f, power)
      BY <2>1, <2>9, <3>2 DEF Trying, CopyOut, At
    <3> HIDE DEF f
    <3> QED BY <3>1, <3>3, OneTries
  <2>10. CASE StreamStarts(t)
    <3>1. /\ thread[t].pc = "start" /\ {"pc", "op"} \subseteq DOMAIN thread[t]
          /\ thread[t].op # "encode"
      BY <2>1, <2>10 DEF StreamStarts, At, Frame
    <3>2. Goto(t, "feed") \/ Done(t)
      BY <2>10 DEF StreamStarts
    <3> QED BY <3>1, <3>2, ComesBack, MovesOn
  <2>11. CASE StreamFeeds(t)
    BY <1>1, <2>11, ComesBack DEF StreamFeeds
  <2>12. CASE CloseLooks(t) \/ Finalize(t)
    <3>1. thread[t].op = "close" /\ thread[t].pc # "idle" /\ {"pc", "op"} \subseteq DOMAIN thread[t]
      BY <2>1, <2>12 DEF CloseLooks, Finalize, At, Frame
    <3>2. Goto(t, "finalize") \/ Goto(t, "forget")
      BY <2>12, Zenon DEF CloseLooks, Finalize
    <3> QED BY <3>1, <3>2, MovesOn
  <2>13. CASE CloseForgets(t)
    BY <2>13, ComesBack DEF CloseForgets
  <2> QED BY <1>2, <2>2, <2>3, <2>4, <2>5, <2>6, <2>7, <2>8, <2>9, <2>10, <2>11, <2>12, <2>13
      DEF Runs
<1>3. ASSUME NEW t \in Threads, Calls(t) PROVE TryInv(power)'
  <2>1. CASE CallNew(t) \/ CallMethod(t) \/ CallNext(t)
    BY <2>1, CallsFirst DEF CallNew, CallMethod, CallNext
  <2>2. CASE CallEncodeStream(t)
    BY <1>1, <2>2 DEF CallEncodeStream
  <2>3. CASE CallClose(t)
    <3>1. PICK o \in Objects : thread' = [thread EXCEPT ![t] =
                                  [pc |-> "close", op |-> "close", uses |-> {o}, buffers |-> 0]]
      BY <2>3 DEF CallClose
    <3> DEFINE f == [pc |-> "close", op |-> "close", uses |-> {o}, buffers |-> 0]
    <3>2. Trying(f, power)
      BY DEF Trying
    <3> QED BY <3>1, <3>2, OneTries
  <2> QED BY <1>3, <2>1, <2>2, <2>3 DEF Calls
<1>4. CASE StreamCloses \/ DropReference \/ Collect \/ Exit \/ Exited
  BY <1>1, <1>4 DEF StreamCloses, DropReference, Collect, Exit, Exited, bindingVars
<1> QED BY <1>1, <1>2, <1>3, <1>4 DEF BindingNext, bindingVars

\* encode never gives up on a text whose room, per byte, is at most what doubling the
\* buffer between its tries makes of one token.
THEOREM EncodeAnswersCorrect ==
  ASSUME NEW power, PowersOfTwo(power), Encodable(power),
         Tries \in Nat \ {0}, Headroom \in Nat, MinCap \in Nat
  PROVE  BindingSpec => []EncodeAnswers
<1>1. BindingInit => TryInv(power)
  <2> SUFFICES ASSUME BindingInit PROVE TryInv(power)
    OBVIOUS
  <2>1. DOMAIN thread = Threads /\ \A t \in Threads : thread[t] = Idle
    BY DEF BindingInit
  <2>2. Trying(Idle, power)
    BY DEF Trying, Idle
  <2> QED BY <2>1, <2>2 DEF TryInv
<1>2. BindInv /\ TryInv(power) /\ [BindingNext]_bindingVars => TryInv(power)'
  BY TryStep
<1>3. TryInv(power) => EncodeAnswers
  BY DEF TryInv, Trying, EncodeAnswers
<1> QED BY BindInit, BindStep, <1>1, <1>2, <1>3, PTL DEF BindingSpec

-----------------------------------------------------------------------------
(* The clusters of the dataset mapping.                                    *)

\* No pair that was looked at could still be fused: the spans are in one cluster, or their
\* clusters may not be joined, now or ever.
Considered ==
  \A p \in decisions \ pending : \A L, R \in clusters :
    p[1] \in L /\ p[2] \in R => L = R \/ ~Fuses(L, R)

Clique(C) ==
  /\ C # {}
  /\ Cardinality(C) = 1 \/ Cardinality(C) <= Config.maximum_cluster_size
  /\ OnePerExample(C)
  /\ \A i, j \in C : i # j => Accepted(i, j)

\* What the greedy loop of _cluster_spans keeps.
ClusterInv ==
  /\ input \in Inputs
  /\ Mapped =>
       /\ pending \subseteq decisions
       /\ decisions \subseteq Spans \X Spans
       /\ Partition
       /\ \A C \in clusters : Clique(C)
       /\ Considered
  /\ phase \in {"packing", "planned"} => pending = {}

\* The spans are finitely many, and so is every part of them.
LEMMA SpansFinite ==
  ASSUME input \in Inputs, NEW S, S \subseteq Spans
  PROVE  IsFiniteSet(S)
<1>1. IsFiniteSet(DOMAIN input.spans)
  BY InputsAssumption
<1>2. Spans \subseteq DOMAIN input.spans
  BY DEF Spans, Of
<1> QED BY <1>1, <1>2, FS_Subset

\* Fusing is symmetric.
LEMMA FusesSymmetric ==
  ASSUME NEW L, NEW R, Fuses(L, R)
  PROVE  Fuses(R, L)
<1>1. L \cup R = R \cup L
  OBVIOUS
<1>2. \A i \in R, j \in L : Accepted(i, j)
  BY DEF Fuses, Accepted
<1> QED BY <1>1, <1>2 DEF Fuses

\* Two clusters that may be fused could be fused before they grew: a refusal is for good.
LEMMA FusesShrinks ==
  ASSUME NEW A, NEW B, NEW L, NEW R, A \subseteq L, B \subseteq R,
         IsFiniteSet(L \cup R), Fuses(L, R)
  PROVE  Fuses(A, B)
<1>1. Cardinality(A \cup B) <= Config.maximum_cluster_size
  <2>1. /\ Cardinality(A \cup B) <= Cardinality(L \cup R)
        /\ Cardinality(A \cup B) \in Nat /\ Cardinality(L \cup R) \in Nat
    BY FS_Subset, FS_CardinalityType
  <2> QED BY <2>1, ConfigAssumption DEF Fuses
<1>2. OnePerExample(A \cup B)
  BY DEF Fuses, OnePerExample
<1>3. \A i \in A, j \in B : Accepted(i, j)
  BY DEF Fuses
<1> QED BY <1>1, <1>2, <1>3 DEF Fuses

\* The union of two cliques that may be fused is one.
LEMMA FusedClique ==
  ASSUME NEW L, NEW R, Clique(L), Clique(R), Fuses(L, R)
  PROVE  Clique(L \cup R)
<1>1. ASSUME NEW i \in L \cup R, NEW j \in L \cup R, i # j
      PROVE  Accepted(i, j)
  <2>1. Fuses(R, L)
    BY FusesSymmetric
  <2>2. CASE i \in L /\ j \in L
    BY <1>1, <2>2 DEF Clique
  <2>3. CASE i \in R /\ j \in R
    BY <1>1, <2>3 DEF Clique
  <2>4. CASE i \in L /\ j \in R
    BY <2>4 DEF Fuses
  <2>5. CASE i \in R /\ j \in L
    BY <2>1, <2>5 DEF Fuses
  <2> QED BY <1>1, <2>2, <2>3, <2>4, <2>5
<1> QED BY <1>1 DEF Clique, Fuses

\* What depends on input, examples and decisions alone stays as it is with them.
LEMMA Unchanged ==
  ASSUME UNCHANGED <<input, examples, decisions>>
  PROVE  /\ Spans' = Spans
         /\ \A C : Clique(C)' <=> Clique(C)
         /\ \A L, R : Fuses(L, R)' <=> Fuses(L, R)
BY DEF Spans, Of, Span, Clique, Fuses, OnePerExample, Accepted

\* The invariant holds at the start.
LEMMA ClusterInit == Init => ClusterInv
BY DEF Init, ClusterInv, Mapped

\* Deciding: no pair has been looked at, and each span is a cluster of its own.
LEMMA DecideKeeps ==
  ASSUME ClusterInv, Decide
  PROVE  ClusterInv'
<1>1. Spans' = Spans /\ input' = input /\ phase' = "clustering"
  BY DEF Decide, Spans, Of, Span
<1>2. pending' = decisions' /\ decisions' \subseteq Spans \X Spans
  BY DEF Decide, Pairs
<1>3. clusters' = {{i} : i \in Spans}
  BY DEF Decide
<1>4. Partition'
  BY <1>1, <1>3 DEF Partition
<1>5. \A C \in clusters' : Clique(C)'
  <2>1. ASSUME NEW i \in Spans PROVE Clique({i})'
    <3>1. Cardinality({i}) = 1
      BY FS_Singleton
    <3> QED BY <3>1 DEF Clique, OnePerExample
  <2> QED BY <1>3, <2>1
<1>6. Considered'
  BY <1>2 DEF Considered
<1> QED BY <1>1, <1>2, <1>4, <1>5, <1>6 DEF ClusterInv

\* A look at a pair.
LEMMA ConsiderKeeps ==
  ASSUME ClusterInv, NEW p \in pending, Consider(p)
  PROVE  ClusterInv'
<1>1. /\ phase = "clustering" /\ phase' = "clustering" /\ input' = input
      /\ UNCHANGED <<input, examples, decisions>>
      /\ pending' = pending \ {p}
  BY DEF Consider
<1>2. PICK L \in clusters, R \in clusters :
        /\ p[1] \in L /\ p[2] \in R
        /\ clusters' = IF L # R /\ Fuses(L, R) THEN (clusters \ {L, R}) \cup {L \cup R}
                       ELSE clusters
  BY DEF Consider
<1>3. /\ input \in Inputs /\ Partition /\ Considered
      /\ \A C \in clusters : Clique(C)
      /\ pending \subseteq decisions /\ decisions \subseteq Spans \X Spans
  BY <1>1 DEF ClusterInv, Mapped
<1>4. \A C \in clusters : C \subseteq Spans
  BY <1>3 DEF Partition
<1>5. Spans' = Spans /\ (\A C : Clique(C)' <=> Clique(C)) /\ (\A A, B : Fuses(A, B)' <=> Fuses(A, B))
  BY <1>1, Unchanged
<1>6. Partition' /\ (\A C \in clusters' : Clique(C)')
  <2>1. CASE L # R /\ Fuses(L, R)
    <3>1. clusters' = (clusters \ {L, R}) \cup {L \cup R}
      BY <1>2, <2>1
    <3>2. UNION clusters' = UNION clusters
      BY <3>1
    <3>3. \A A, B \in clusters' : A # B => A \cap B = {}
      BY <1>3, <3>1 DEF Partition
    <3>4. Clique(L \cup R)
      BY <1>3, <2>1, FusedClique
    <3> QED BY <1>3, <1>5, <3>1, <3>2, <3>3, <3>4 DEF Partition
  <2>2. CASE ~(L # R /\ Fuses(L, R))
    BY <1>2, <1>3, <1>5, <2>2 DEF Partition
  <2> QED BY <2>1, <2>2
<1>7. \A A \in clusters' : A \subseteq Spans
  BY <1>5, <1>6 DEF Partition
<1>8. Considered'
  <2> SUFFICES ASSUME NEW q \in decisions \ (pending \ {p}), NEW A \in clusters', NEW B \in clusters',
                      q[1] \in A, q[2] \in B, A # B
               PROVE  ~Fuses(A, B)
    BY <1>1, <1>5 DEF Considered
  <2>1. A \cap B = {}
    BY <1>6 DEF Partition
  <2>2. CASE q = p
    <3>1. CASE L # R /\ Fuses(L, R)
      <4>1. L \cup R \in clusters' /\ p[1] \in L \cup R /\ p[2] \in L \cup R
        BY <1>2, <3>1
      <4>2. A = L \cup R /\ B = L \cup R
        BY <1>6, <2>2, <4>1 DEF Partition
      <4> QED BY <4>2
    <3>2. CASE ~(L # R /\ Fuses(L, R))
      <4>1. A = L /\ B = R
        BY <1>2, <1>3, <2>2, <3>2 DEF Partition
      <4> QED BY <3>2, <4>1
    <3> QED BY <3>1, <3>2
  <2>3. CASE q # p
    <3>1. q \in decisions \ pending
      BY <2>3
    <3>2. PICK A0 \in clusters : q[1] \in A0 /\ A0 \subseteq A
      BY <1>2
    <3>3. PICK B0 \in clusters : q[2] \in B0 /\ B0 \subseteq B
      BY <1>2
    <3>4. A0 # B0
      BY <2>1, <3>2, <3>3
    <3>5. ~Fuses(A0, B0)
      BY <1>3, <3>1, <3>2, <3>3, <3>4 DEF Considered
    <3>6. IsFiniteSet(A \cup B)
      BY <1>3, <1>7, SpansFinite
    <3> QED BY <3>2, <3>3, <3>5, <3>6, FusesShrinks
  <2> QED BY <2>2, <2>3
<1> QED BY <1>1, <1>3, <1>5, <1>6, <1>8 DEF ClusterInv

\* A step that leaves the clusters and what they are made of alone.
LEMMA OthersKeep ==
  ASSUME ClusterInv, UNCHANGED <<input, examples, decisions, pending, clusters>>,
         Mapped' => Mapped, phase' \in {"packing", "planned"} => pending = {}
  PROVE  ClusterInv'
<1>1. Spans' = Spans /\ (\A C : Clique(C)' <=> Clique(C)) /\ (\A A, B : Fuses(A, B)' <=> Fuses(A, B))
  BY Unchanged
<1>2. (Partition' <=> Partition) /\ (Considered' <=> Considered)
  BY <1>1 DEF Partition, Considered
<1> QED BY <1>1, <1>2 DEF ClusterInv

\* Every step keeps the invariant.
LEMMA ClusterNext == ClusterInv /\ [Next]_vars => ClusterInv'
<1> SUFFICES ASSUME ClusterInv, [Next]_vars
             PROVE  ClusterInv'
  OBVIOUS
<1>1. CASE RetrieveStructural \/ RetrieveSemantic \/ WriteRetrieved \/ Refuse
  BY <1>1 DEF RetrieveStructural, RetrieveSemantic, WriteRetrieved, Refuse, ClusterInv, Mapped
<1>2. ASSUME NEW p \in queue, SelectPair(p)
      PROVE  ClusterInv'
  BY <1>2 DEF SelectPair, ClusterInv, Mapped
<1>3. ASSUME NEW p \in queue, Pack(p)
      PROVE  ClusterInv'
  <2>1. UNCHANGED <<input, examples, decisions, pending, clusters, phase>> /\ phase = "packing"
    BY <1>3 DEF Pack
  <2>2. pending = {}
    BY <2>1 DEF ClusterInv
  <2> QED BY <2>1, <2>2, OthersKeep DEF Mapped
<1>4. CASE Decide
  BY <1>4, DecideKeeps
<1>5. ASSUME NEW p \in pending, Consider(p)
      PROVE  ClusterInv'
  BY <1>5, ConsiderKeeps
<1>6. CASE Align
  <2>1. UNCHANGED <<input, examples, decisions, pending, clusters>> /\ phase = "clustering" /\ pending = {}
    BY <1>6 DEF Align
  <2> QED BY <2>1, OthersKeep DEF Mapped
<1>7. CASE Finish
  <2>1. UNCHANGED <<input, examples, decisions, pending, clusters>> /\ phase = "packing"
    BY <1>7 DEF Finish
  <2>2. pending = {}
    BY <2>1 DEF ClusterInv
  <2> QED BY <2>1, <2>2, OthersKeep DEF Mapped
<1>8. CASE UNCHANGED vars
  <2>1. UNCHANGED <<input, examples, decisions, pending, clusters, phase>>
    BY <1>8 DEF vars
  <2> QED BY <2>1, OthersKeep DEF Mapped, ClusterInv
<1> QED BY <1>1, <1>2, <1>3, <1>4, <1>5, <1>6, <1>7, <1>8 DEF Next

\* The invariant holds in every reachable state.
THEOREM ClusterInvariant == Spec => []ClusterInv
BY ClusterInit, ClusterNext, PTL DEF Spec

\* The clusters are a partition of the spans into cliques of accepted pairs, in every state,
\* whatever the input, the configuration and the scores (dataset_mapping.py:250-293).
THEOREM Cliques == Spec => []ClustersAreCliques
<1>1. ClusterInv => ClustersAreCliques
  BY DEF ClusterInv, Clique, ClustersAreCliques
<1> QED BY <1>1, ClusterInvariant, PTL

\* One look at each pair is enough: at the end no two clusters are left that could still be
\* fused (dataset_mapping.py:265-292).
THEOREM Maximal == Spec => []NothingLeftToFuse
<1>1. ClusterInv => NothingLeftToFuse
  <2> SUFFICES ASSUME ClusterInv, phase \in {"packing", "planned"},
                      NEW L \in clusters, NEW R \in clusters, L # R,
                      ~(Cardinality(L \cup R) > Config.maximum_cluster_size),
                      \A i \in L, j \in R : Span(i).example # Span(j).example /\ Accepted(i, j)
               PROVE  FALSE
    BY DEF NothingLeftToFuse
  <2>1. /\ input \in Inputs /\ pending = {} /\ Partition /\ Considered
        /\ Clique(L) /\ Clique(R)
    BY DEF ClusterInv, Mapped
  <2>2. Cardinality(L \cup R) <= Config.maximum_cluster_size
    <3>1. L \cup R \subseteq Spans
      BY <2>1 DEF Partition
    <3>2. Cardinality(L \cup R) \in Nat
      BY <2>1, <3>1, SpansFinite, FS_CardinalityType
    <3> QED BY <3>2, ConfigAssumption
  <2>3. OnePerExample(L \cup R)
    BY <2>1 DEF Clique, OnePerExample
  <2>4. Fuses(L, R)
    BY <2>2, <2>3 DEF Fuses
  <2>5. PICK i \in L, j \in R : Accepted(i, j)
    BY <2>1 DEF Clique
  <2>6. CASE <<i, j>> \in decisions
    BY <2>1, <2>4, <2>6 DEF Considered
  <2>7. CASE <<j, i>> \in decisions
    BY <2>1, <2>4, <2>7, FusesSymmetric DEF Considered
  <2> QED BY <2>5, <2>6, <2>7 DEF Accepted
<1> QED BY <1>1, ClusterInvariant, PTL
=============================================================================
