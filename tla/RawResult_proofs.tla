--------------------------- MODULE RawResult_proofs ---------------------------
(***************************************************************************)
(* Proofs about RawResult, for any bytes and answers of any length: what      *)
(* Rust hears is what Go said, and no string outlives its operation.           *)
(***************************************************************************)
EXTENDS RawResult, SequenceTheorems, TLAPS

\* Taking the tag off gives back the bytes behind it.
LEMMA TagOff ==
  ASSUME NEW code \in Bytes, NEW data \in Seq(Bytes)
  PROVE  Head(<<code>> \o data) = code /\ Tail(<<code>> \o data) = data
<1>1. <<code>> \in Seq(Bytes) /\ Len(<<code>>) = 1 /\ <<code>>[1] = code
  OBVIOUS
<1> DEFINE w == <<code>> \o data
<1>2. /\ w \in Seq(Bytes) /\ Len(w) = 1 + Len(data)
      /\ \A i \in 1 .. 1 + Len(data) : w[i] = IF i <= 1 THEN code ELSE data[i - 1]
  BY <1>1, ConcatProperties
<1>3. Len(data) \in Nat /\ DOMAIN data = 1 .. Len(data)
  OBVIOUS
<1> HIDE DEF w
<1>4. w # <<>>
  BY <1>2, <1>3
<1>5. Head(w) = code
  BY <1>2, <1>3, <1>4
<1>6. /\ Tail(w) \in Seq(Bytes) /\ Len(Tail(w)) = Len(data)
      /\ \A i \in 1 .. Len(data) : Tail(w)[i] = w[i + 1]
  BY <1>2, <1>3, <1>4, HeadTailProperties
<1>7. \A i \in 1 .. Len(data) : Tail(w)[i] = data[i]
  BY <1>2, <1>3, <1>6
<1>8. Tail(w) = data
  BY <1>6, <1>7, SeqEqual
<1> QED BY <1>5, <1>8 DEF w

Tag(code) == IF code = "ok" THEN Ok ELSE IF code = "query" THEN QueryError ELSE ExecuteError

\* What the library has said is on the wire with its tag.
OnWire ==
  said # Nothing =>
    /\ said \in [code : {"ok", "query", "execute"}, bytes : Seq(Bytes)]
    /\ wire = <<Tag(said.code)>> \o said.bytes

\* Which strings there are where in an operation.
Allocated ==
  /\ call = "none" => heap = {} /\ said = Nothing /\ heard = Nothing
  /\ Running => heap = {"arguments"}
  /\ said # Nothing /\ heard = Nothing => heap = {"arguments", "answer"}
  /\ heard = Panic => heap = {}
  /\ heard \notin {Nothing, Panic} => heap = {"arguments"}

IInv == OnWire /\ Allocated /\ HeardAsSaid

\* Init has nothing to hear, and no strings.
LEMMA InitIInv == Init => IInv
  BY DEF Init, IInv, OnWire, Allocated, HeardAsSaid, Running, Nothing, Panic

\* Nothing, a panic and an answer are told apart by their codes.
LEMMA CodesDiffer ==
  /\ Nothing # Panic
  /\ \A code \in {"ok", "query", "execute"}, bytes \in Seq(Bytes) :
       [code |-> code, bytes |-> bytes] \notin {Nothing, Panic}
<1>1. Nothing.code = "none" /\ Panic.code = "panic"
  BY DEF Nothing, Panic
<1> QED BY <1>1

\* Go's side: the answer is tagged with its kind, and allocated.
LEMMA Answering ==
  ASSUME IInv, Running, NEW code \in {"ok", "query", "execute"}, NEW bytes \in Seq(Bytes),
         said' = [code |-> code, bytes |-> bytes],
         wire' = <<Tag(code)>> \o bytes,
         heap' = heap \union {"answer"},
         UNCHANGED <<heard, call>>
  PROVE  IInv'
<1>1. said' \notin {Nothing, Panic}
  BY CodesDiffer
<1>2. OnWire'
  BY DEF OnWire
<1>3. heap' = {"arguments", "answer"} /\ heard' = Nothing /\ call' # "none"
  BY DEF IInv, Allocated, Running
<1>4. Allocated'
  BY <1>1, <1>3, CodesDiffer DEF Allocated, Running
<1>5. HeardAsSaid'
  BY <1>3 DEF HeardAsSaid
<1> QED BY <1>2, <1>4, <1>5 DEF IInv

\* Rust's side: the tag and the text decide.
LEMMA Decoding ==
  ASSUME OnWire, said # Nothing
  PROVE  \/ from_ptr(wire) = said
         \/ from_ptr(wire) = Panic /\ said.code # "ok" /\ ~(ToSet(said.bytes) \subseteq Text)
<1>1. /\ said.code \in {"ok", "query", "execute"} /\ said.bytes \in Seq(Bytes)
      /\ said = [code |-> said.code, bytes |-> said.bytes]
      /\ wire = <<Tag(said.code)>> \o said.bytes
  BY DEF OnWire
<1>2. Tag(said.code) \in Bytes
  BY BytesAssumption DEF Tag
<1>3. Head(wire) = Tag(said.code) /\ Tail(wire) = said.bytes
  BY <1>1, <1>2, TagOff
<1>4. CASE said.code = "ok"
  <2>1. from_ptr(wire) = [code |-> "ok", bytes |-> said.bytes]
    BY <1>3, <1>4 DEF from_ptr, Tag
  <2> QED BY <1>1, <1>4, <2>1
<1>5. CASE said.code # "ok"
  <2>1. \/ said.code = "query" /\ Head(wire) = 1
        \/ said.code = "execute" /\ Head(wire) = 2
    BY <1>1, <1>3, <1>5 DEF Tag, QueryError, ExecuteError
  <2>2. Head(wire) # Ok
    BY <2>1 DEF Ok
  <2>3. CASE ~(ToSet(said.bytes) \subseteq Text)
    <3>1. ~(ToSet(Tail(wire)) \subseteq Text)
      BY <1>3, <2>3, Zenon
    <3>2. from_ptr(wire) = Panic
      BY <2>2, <3>1, Zenon DEF from_ptr
    <3> QED BY <1>5, <2>3, <3>2
  <2>4. CASE ToSet(said.bytes) \subseteq Text
    <3>1. ToSet(Tail(wire)) \subseteq Text
      BY <1>3, <2>4, Zenon
    <3>2. from_ptr(wire) = IF Head(wire) = QueryError THEN [code |-> "query", bytes |-> Tail(wire)]
                           ELSE IF Head(wire) = ExecuteError
                                  THEN [code |-> "execute", bytes |-> Tail(wire)]
                           ELSE Panic
      BY <2>2, <3>1, Zenon DEF from_ptr
    <3>3. CASE said.code = "query" /\ Head(wire) = 1
      <4>1. from_ptr(wire) = [code |-> "query", bytes |-> Tail(wire)]
        BY <3>2, <3>3, Zenon DEF QueryError
      <4>2. said = [code |-> "query", bytes |-> Tail(wire)]
        BY <1>1, <1>3, <3>3, Zenon
      <4> QED BY <4>1, <4>2
    <3>4. CASE said.code = "execute" /\ Head(wire) = 2
      <4>1. Head(wire) # QueryError /\ Head(wire) = ExecuteError
        BY <3>4 DEF QueryError, ExecuteError
      <4>2. from_ptr(wire) = [code |-> "execute", bytes |-> Tail(wire)]
        BY <3>2, <4>1, Zenon
      <4>3. said = [code |-> "execute", bytes |-> Tail(wire)]
        BY <1>1, <1>3, <3>4, Zenon
      <4> QED BY <4>2, <4>3
    <3> QED BY <2>1, <3>3, <3>4
  <2> QED BY <2>3, <2>4
<1> QED BY <1>4, <1>5

\* The inductive invariant holds of every state, for answers of any length.
THEOREM IInvAlways == Spec => []IInv
<1>1. IInv /\ [Next]_vars => IInv'
  <2> SUFFICES ASSUME IInv, [Next]_vars PROVE IInv'
    OBVIOUS
  <2>1. ASSUME NEW c \in Calls, NEW nul \in BOOLEAN, redefine_as_go_string(c, nul)
        PROVE  IInv'
    <3>1. call = "none" /\ said = Nothing /\ heap = {} /\ heard = Nothing
      BY <2>1 DEF redefine_as_go_string, IInv, Allocated
    <3>2. said' = Nothing /\ call' = c /\ c # "none" /\ wire' = wire
      BY <2>1, <3>1 DEF redefine_as_go_string, Calls
    <3>3. \/ heard' = Panic /\ heap' = {}
          \/ heard' = Nothing /\ heap' = {"arguments"}
      BY <2>1, <3>1 DEF redefine_as_go_string
    <3>4. OnWire' /\ HeardAsSaid'
      BY <3>2, <3>3 DEF OnWire, HeardAsSaid
    <3>5. Allocated'
      BY <3>2, <3>3, CodesDiffer DEF Allocated, Running
    <3> QED BY <3>4, <3>5 DEF IInv
  <2>2. ASSUME NEW data \in SeqOf(Bytes, MaxLen), Respond(data) PROVE IInv'
    <3>1. data \in Seq(Bytes)
      BY DEF SeqOf
    <3>2. wire' = <<Tag("ok")>> \o data
      BY <2>2 DEF Respond, markOk, Tag
    <3> QED BY <2>2, <3>1, <3>2, Answering DEF Respond
  <2>3. ASSUME NEW text \in SeqOf(Bytes, MaxLen), Fail(text) PROVE IInv'
    <3>1. text \in Seq(Bytes)
      BY DEF SeqOf
    <3> DEFINE kind == IF call = "Query" THEN "query" ELSE "execute"
    <3>2. kind \in {"query", "execute"}
      OBVIOUS
    <3>3. /\ Running /\ heap' = heap \union {"answer"} /\ UNCHANGED <<heard, call>>
          /\ said' = [code |-> kind, bytes |-> text]
          /\ wire' = <<Tag(kind)>> \o text
      BY <2>3 DEF Fail, markError, Tag
    <3> HIDE DEF kind
    <3> QED BY <3>1, <3>2, <3>3, Answering
  <2>4. CASE Receive
    <3>1. /\ said # Nothing /\ heard = Nothing /\ heard' = from_ptr(wire)
          /\ UNCHANGED <<said, wire, call>> /\ heap = {"arguments", "answer"}
          /\ call # "none"
      BY <2>4 DEF Receive, IInv, Allocated
    <3>2. \/ heard' = said
          \/ heard' = Panic /\ said.code # "ok" /\ ~(ToSet(said.bytes) \subseteq Text)
      BY <3>1, Decoding DEF IInv
    <3>3. OnWire' /\ HeardAsSaid'
      BY <3>1, <3>2 DEF IInv, OnWire, HeardAsSaid
    <3>4. heap' = IF heard' = Panic THEN {} ELSE {"arguments"}
      BY <2>4, <3>1 DEF Receive
    <3>5. heard' # Nothing
      BY <3>1, <3>2, CodesDiffer
    <3>6. Allocated'
      BY <3>1, <3>4, <3>5 DEF Allocated, Running
    <3> QED BY <3>3, <3>6 DEF IInv
  <2>5. CASE Hear
    <3>1. said' = Nothing /\ heard' = Nothing /\ call' = "none" /\ heap' = {}
      BY <2>5 DEF Hear, IInv, Allocated
    <3> QED BY <3>1, CodesDiffer DEF IInv, OnWire, Allocated, Running, HeardAsSaid
  <2>6. CASE UNCHANGED vars
    BY <2>6 DEF vars, IInv, OnWire, Allocated, Running, HeardAsSaid
  <2> QED BY <2>1, <2>2, <2>3, <2>4, <2>5, <2>6 DEF Next
<1> QED BY InitIInv, <1>1, PTL DEF Spec

\* What BaseApp hears is what the library said, for answers of any length and whatever
\* byte they begin with.
THEOREM AnswersAreHeard == Spec => []HeardAsSaid
<1>1. IInv => HeardAsSaid
  BY DEF IInv
<1> QED BY IInvAlways, <1>1, PTL

\* The library never reads an argument that has been freed.
THEOREM ArgumentsLive == Spec => []ArgumentsOutliveCall
<1>1. IInv => ArgumentsOutliveCall
  BY DEF IInv, Allocated, ArgumentsOutliveCall
<1> QED BY IInvAlways, <1>1, PTL

\* However an operation ends, it leaves no string behind.
THEOREM StringsAreFreed == Spec => []NothingLeaks
<1>1. IInv => NothingLeaks
  BY DEF IInv, Allocated, NothingLeaks
<1> QED BY IInvAlways, <1>1, PTL
===============================================================================
