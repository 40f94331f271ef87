------------------------------ MODULE PyBinding ------------------------------
(***************************************************************************)
(* bindings/python/ztok: the wrapper objects of the Python package, over   *)
(* the handles and buffers of libztok.  Calls into the library release the *)
(* interpreter lock, so threads interleave at every call; objects vanish   *)
(* when nothing refers to them any more, and their finalizers run then,    *)
(* in close, or when the interpreter exits.                                *)
(*                                                                         *)
(* The contract the model assumes of the program: nobody else uses a       *)
(* pipeline or a pool while it is closed, no stream is open over a         *)
(* pipeline that is closed, and a pool serves one batch at a time.         *)
(* A text is its length, the number of its tokens, and the room that the   *)
(* library asks for while it writes them.                                  *)
(***************************************************************************)
EXTENDS Integers, FiniteSets

CONSTANTS
  Threads, Pipelines, Pools,
  Texts,       \* records of size, tokens, room
  Tries,       \* how often encode tries a buffer
  Headroom,    \* what encode adds to the length of the text
  MinCap,      \* the smallest buffer
  MaxCalls     \* bound: how many methods are called

VARIABLES
  lib,       \* the module's _lib: none, or a library whose signatures are bound
  wrapper,   \* the Python objects: their _handle, and whether the finalizer is alive
  held,      \* the program has a reference to the object
  native,    \* the library's objects
  stream,    \* a generator over each pipeline, and the library's stream under it
  thread,
  calls,
  exited     \* the interpreter has run the finalizers that were left

bindingVars == <<lib, wrapper, held, native, stream, thread, calls, exited>>

Objects == Pipelines \cup Pools

\* Methods by how they call the library.
OneCall   == {"fingerprint", "set_overlay_domain", "ngram_hash"}
Sized     == {"encode_with_overlays", "decode_bytes", "chunk", "build_semantic_plan"}
Unpiped   == {"ngram_hash", "ngram_hash_batch", "build_semantic_plan"}   \* of no pipeline
Buffered  == {"encode_batch", "ngram_hash_batch", "chunk", "build_fixed_plan"}
OfPools   == {"encode_batch", "ngram_hash_batch"}
Methods   == OneCall \cup Sized \cup Buffered \cup {"encode"}

Idle == [pc |-> "idle"]

Unborn == [handle |-> FALSE, alive |-> FALSE]
Closed == [generator |-> "none", open |-> FALSE, left |-> 0]

BindingInit ==
  /\ lib = "none"
  /\ wrapper = [o \in Objects |-> Unborn]
  /\ held = [o \in Objects |-> FALSE]
  /\ native = [o \in Objects |-> "none"]
  /\ stream = [p \in Pipelines |-> Closed]
  /\ thread = [t \in Threads |-> Idle]
  /\ calls = 0
  /\ exited = FALSE

At(t, pc) == thread[t].pc = pc /\ ~ exited
Goto(t, pc) == thread' = [thread EXCEPT ![t].pc = pc]
Done(t) == thread' = [thread EXCEPT ![t] = Idle]

\* The objects a thread's frames refer to.
Uses(t) == IF thread[t].pc = "idle" THEN {} ELSE thread[t].uses

-----------------------------------------------------------------------------
(* Calling a method.                                                       *)

Called(t, op, uses) ==
  /\ At(t, "idle") /\ calls < MaxCalls
  /\ calls' = calls + 1
  /\ thread' = [thread EXCEPT ![t] =
       [pc |-> IF lib = "none" THEN "load" ELSE "start", op |-> op, uses |-> uses,
        cap |-> 0, tries |-> 0, text |-> CHOOSE x \in Texts : TRUE, buffers |-> 0]]

Busy(o, ops) == \E t \in Threads : o \in Uses(t) /\ thread[t].op \in ops

\* A constructor.
CallNew(t) ==
  /\ \E o \in Objects : /\ native[o] = "none" /\ ~ Busy(o, {"new"})
                        /\ Called(t, "new", {o})
  /\ UNCHANGED <<lib, wrapper, held, native, stream, exited>>

CallMethod(t) ==
  /\ \E op \in Methods, p \in Pipelines, b \in Pools :
       LET uses == (IF op \in Unpiped THEN {} ELSE {p})
                   \cup (IF op \in OfPools THEN {b} ELSE {})
       IN  /\ \A o \in uses : held[o] /\ ~ Busy(o, {"close"})
           /\ op \in OfPools => ~ Busy(b, OfPools)
           /\ Called(t, op, uses)
  /\ UNCHANGED <<lib, wrapper, held, native, stream, exited>>

\* _get_lib, the first time: several threads may load the library, each its own.
LoadLibrary(t) ==
  /\ At(t, "load")
  /\ Goto(t, "bind") \/ Done(t)          \* or ZtokLibraryNotFoundError
  /\ UNCHANGED <<lib, wrapper, held, native, stream, calls, exited>>

\* bind returns what _lib is then assigned.
Bind(t) ==
  /\ At(t, "bind")
  /\ lib' = "bound"
  /\ Goto(t, "start")
  /\ UNCHANGED <<wrapper, held, native, stream, calls, exited>>

Refused(t) == thread[t].op # "new" /\ \E o \in Uses(t) : ~ wrapper[o].handle

FirstCap(text) == IF text.size + Headroom > MinCap THEN text.size + Headroom ELSE MinCap

\* _raw of each object, the checks of the arguments, and the early returns.
StartMethod(t) ==
  /\ At(t, "start") /\ thread[t].op # "next"
  /\ \/ Done(t)
     \/ /\ ~ Refused(t)
        /\ \E text \in Texts :
             thread' = [thread EXCEPT ![t].pc = IF thread[t].op \in Sized THEN "size" ELSE "native",
                                      ![t].text = text, ![t].cap = FirstCap(text)]
  /\ UNCHANGED <<lib, wrapper, held, native, stream, calls, exited>>

-----------------------------------------------------------------------------
(* The calls into the library.                                             *)

\* The handle is wrapped as it is returned, with a finalizer.
NewReturns(t) ==
  /\ At(t, "native") /\ thread[t].op = "new"
  /\ \E ok \in BOOLEAN, o \in Uses(t) :
       IF ok THEN /\ wrapper' = [wrapper EXCEPT ![o] = [handle |-> TRUE, alive |-> TRUE]]
                  /\ native' = [native EXCEPT ![o] = "live"]
                  /\ held' = [held EXCEPT ![o] = TRUE]
             ELSE UNCHANGED <<wrapper, native, held>>
  /\ Done(t)
  /\ UNCHANGED <<lib, stream, calls, exited>>

\* A call that sizes: an error is raised, and no tokens are returned at once.
SizeReturns(t) ==
  /\ At(t, "size")
  /\ Goto(t, "native") \/ Done(t)
  /\ UNCHANGED <<lib, wrapper, held, native, stream, calls, exited>>

\* Fault: the buffer grows only to what the library reported.
GrownToReported(cap, text) == text.tokens + Headroom

\* The number of tokens is reported, but more room may be asked for on the way.
Grown(cap, text) ==
  IF 2 * cap > text.tokens + Headroom THEN 2 * cap ELSE text.tokens + Headroom

EncodeReturns(t) ==
  /\ At(t, "native") /\ thread[t].op = "encode"
  /\ LET call == thread[t]
     IN  \/ Done(t)                                   \* its tokens, or an error
            /\ call.cap >= call.text.room
         \/ /\ call.cap < call.text.room
            /\ thread' = [thread EXCEPT
                 ![t].pc = IF call.tries + 1 < Tries THEN "native" ELSE "gave up",
                 ![t].tries = @ + 1, ![t].cap = Grown(call.cap, call.text)]
  /\ UNCHANGED <<lib, wrapper, held, native, stream, calls, exited>>

MethodReturns(t) ==
  /\ At(t, "native") /\ thread[t].op \in Methods \ ({"encode"} \cup Buffered)
  /\ Done(t)
  /\ UNCHANGED <<lib, wrapper, held, native, stream, calls, exited>>

\* The library returns its buffers, or frees them all and returns an error.
BuffersReturn(t) ==
  /\ At(t, "native") /\ thread[t].op \in Buffered
  /\ \E n \in 0 .. 2 : thread' = [thread EXCEPT ![t].pc = "copy", ![t].buffers = n]
  /\ UNCHANGED <<lib, wrapper, held, native, stream, calls, exited>>

\* The copy into Python objects, which may raise; finally, each buffer is given back.
CopyOut(t) ==
  /\ At(t, "copy")
  /\ thread' = [thread EXCEPT ![t].pc = "return", ![t].buffers = 0]
  /\ UNCHANGED <<lib, wrapper, held, native, stream, calls, exited>>

Returns(t) ==
  /\ At(t, "return") /\ Done(t)
  /\ UNCHANGED <<lib, wrapper, held, native, stream, calls, exited>>

-----------------------------------------------------------------------------
(* encode_stream: a generator, whose body runs when it is iterated.        *)

CallEncodeStream(t) ==
  /\ \E p \in Pipelines :
       /\ held[p] /\ ~ Busy(p, {"close"}) /\ stream[p].generator = "none"
       /\ calls < MaxCalls /\ At(t, "idle") /\ calls' = calls + 1
       /\ \E chunks \in 0 .. 2 :
            stream' = [stream EXCEPT ![p] = [Closed EXCEPT !.generator = "created",
                                                           !.left = chunks]]
  /\ UNCHANGED <<lib, wrapper, held, native, thread, exited>>

\* One thread iterates it at a time.
CallNext(t) ==
  /\ \E p \in Pipelines :
       /\ stream[p].generator \in {"created", "suspended"}
       /\ ~ Busy(p, {"close", "next"})
       /\ Called(t, "next", {p})
       /\ stream' = [stream EXCEPT ![p].generator = "running"]
  /\ UNCHANGED <<lib, wrapper, held, native, exited>>

Ended == [Closed EXCEPT !.generator = "ended"]

\* The first time: the handle is read, and the stream opened.
StreamStarts(t) ==
  /\ At(t, "start") /\ thread[t].op = "next"
  /\ \E p \in Uses(t) :
       IF stream[p].open THEN Goto(t, "feed") /\ UNCHANGED stream
       ELSE \/ /\ wrapper[p].handle
               /\ stream' = [stream EXCEPT ![p].open = TRUE]
               /\ Goto(t, "feed")
            \/ stream' = [stream EXCEPT ![p] = Ended] /\ Done(t)   \* closed, or an error
  /\ UNCHANGED <<lib, wrapper, held, native, calls, exited>>

\* ztok_stream_feed of the next piece, or ztok_stream_finish after the last: ids are
\* copied, freed and yielded; without any the loop goes on; and the end of it, or an
\* error, runs the finally clause.
StreamFeeds(t) ==
  /\ At(t, "feed")
  /\ \E p \in Uses(t), ids \in BOOLEAN, error \in BOOLEAN :
       LET left == stream[p].left - 1
       IN  IF error \/ (left < 0 /\ ~ ids) \/ left < -1
           THEN stream' = [stream EXCEPT ![p] = Ended] /\ Done(t)
           ELSE /\ stream' = [stream EXCEPT ![p].left = left,
                     ![p].generator = IF ids THEN "suspended" ELSE @]
                /\ IF ids THEN Done(t) ELSE UNCHANGED thread
  /\ UNCHANGED <<lib, wrapper, held, native, calls, exited>>

\* The generator is closed, or nothing refers to it: GeneratorExit at its yield.
StreamCloses ==
  /\ ~ exited
  /\ \E p \in Pipelines :
       /\ stream[p].generator \in {"created", "suspended"}
       /\ stream' = [stream EXCEPT ![p] = Ended]
  /\ UNCHANGED <<lib, wrapper, held, native, thread, calls, exited>>

-----------------------------------------------------------------------------
(* Releasing.                                                              *)

Release(o) ==
  /\ wrapper' = [wrapper EXCEPT ![o].alive = FALSE]
  /\ native' = [native EXCEPT ![o] = IF @ = "live" THEN "freed" ELSE "freed twice"]

\* Two threads may close an object at once.
CallClose(t) ==
  /\ \E o \in Objects :
       /\ held[o] /\ At(t, "idle")
       /\ ~ Busy(o, Methods \cup {"next"})
       /\ o \in Pipelines => ~ stream[o].open
       /\ calls < MaxCalls /\ calls' = calls + 1
       /\ thread' = [thread EXCEPT ![t] =
            [pc |-> "close", op |-> "close", uses |-> {o}, buffers |-> 0]]
  /\ UNCHANGED <<lib, wrapper, held, native, stream, exited>>

\* self._finalizer.alive
CloseLooks(t) ==
  /\ At(t, "close")
  /\ \E o \in Uses(t) : Goto(t, IF wrapper[o].alive THEN "finalize" ELSE "forget")
  /\ UNCHANGED <<lib, wrapper, held, native, stream, calls, exited>>

\* Fault: the handle is freed without asking the finalizer again.
FinalizeAgain(t) ==
  /\ At(t, "finalize")
  /\ \E o \in Uses(t) : Release(o)
  /\ Goto(t, "forget")
  /\ UNCHANGED <<lib, held, stream, calls, exited>>

\* self._finalizer(): only the first call finds it in the registry.
Finalize(t) ==
  /\ At(t, "finalize")
  /\ \E o \in Uses(t) : IF wrapper[o].alive THEN Release(o) ELSE UNCHANGED <<wrapper, native>>
  /\ Goto(t, "forget")
  /\ UNCHANGED <<lib, held, stream, calls, exited>>

\* self._handle = None
CloseForgets(t) ==
  /\ At(t, "forget")
  /\ wrapper' = [o \in Objects |->
       IF o \in Uses(t) THEN [wrapper[o] EXCEPT !.handle = FALSE] ELSE wrapper[o]]
  /\ Done(t)
  /\ UNCHANGED <<lib, held, native, stream, calls, exited>>

DropReference ==
  /\ ~ exited
  /\ \E o \in Objects : held[o] /\ held' = [held EXCEPT ![o] = FALSE]
  /\ UNCHANGED <<lib, wrapper, native, stream, thread, calls, exited>>

\* Fault: a generator keeps the handle and not the pipeline.
GarbageUnderStream(o) ==
  ~ held[o] /\ wrapper[o].alive /\ ~ \E t \in Threads : o \in Uses(t)

\* No variable, no frame and no generator refers to the object.
Garbage(o) ==
  /\ ~ held[o] /\ wrapper[o].alive
  /\ ~ \E t \in Threads : o \in Uses(t)
  /\ o \in Pipelines => stream[o].generator \in {"none", "ended"}

Collect ==
  /\ ~ exited
  /\ \E o \in Objects : Garbage(o) /\ Release(o)
  /\ UNCHANGED <<lib, held, stream, thread, calls, exited>>

\* The program ends when its threads have, and the finalizers that are left run.
Exit ==
  /\ ~ exited /\ \A t \in Threads : thread[t].pc \in {"idle", "gave up"}
  /\ exited' = TRUE
  /\ native' = [o \in Objects |-> IF wrapper[o].alive THEN "freed" ELSE native[o]]
  /\ wrapper' = [o \in Objects |-> [wrapper[o] EXCEPT !.alive = FALSE]]
  /\ UNCHANGED <<lib, held, stream, thread, calls>>

Exited == exited /\ UNCHANGED bindingVars

-----------------------------------------------------------------------------
Runs(t) ==
  \/ LoadLibrary(t) \/ Bind(t) \/ StartMethod(t) \/ NewReturns(t) \/ SizeReturns(t)
  \/ EncodeReturns(t) \/ MethodReturns(t) \/ BuffersReturn(t) \/ CopyOut(t) \/ Returns(t)
  \/ StreamStarts(t) \/ StreamFeeds(t) \/ CloseLooks(t) \/ Finalize(t) \/ CloseForgets(t)

Calls(t) ==
  CallNew(t) \/ CallMethod(t) \/ CallEncodeStream(t) \/ CallNext(t) \/ CallClose(t)

BindingNext ==
  \/ \E t \in Threads : Runs(t) \/ Calls(t)
  \/ StreamCloses \/ DropReference \/ Collect \/ Exit \/ Exited

BindingSpec == BindingInit /\ [][BindingNext]_bindingVars

-----------------------------------------------------------------------------
(* Properties.                                                             *)

\* Every call into the library goes through bound signatures, and is given handles
\* that live until it returns: neither close, nor the collector while a frame or a
\* generator needs the object, nor another thread's first call comes in between
\* (__init__.py:130-196, 517-766, _ffi.py:213-362).
CallsGetLiveHandles ==
  \A t \in Threads : thread[t].pc \in {"size", "native", "feed"} =>
    /\ lib = "bound"
    /\ thread[t].op # "new" => \A o \in Uses(t) : native[o] = "live"

\* Nothing is freed twice and nothing is forgotten: a handle lives exactly as long as
\* its finalizer, a closed wrapper has none, a method that returned or raised holds no
\* buffer, and a stream lives only under a generator that can still run
\* (__init__.py:165-225, 519-535, 697-766).
FreedOnce ==
  /\ \A o \in Objects : /\ native[o] = "live" <=> wrapper[o].alive
                        /\ native[o] # "freed twice"
  /\ \A t \in Threads : thread[t].pc = "return" => thread[t].buffers = 0
  /\ \A p \in Pipelines : stream[p].open =>
       stream[p].generator \in {"running", "suspended"}

\* encode never gives up on a text the library can encode: its tries reach the room
\* that the library asks for, however much more that is than the tokens it reports
\* (__init__.py:537-573).
EncodeAnswers == \A t \in Threads : thread[t].pc # "gave up"
=============================================================================
