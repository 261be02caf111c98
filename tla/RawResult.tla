------------------------------ MODULE RawResult ------------------------------
(***************************************************************************)
(* How an answer of the library crosses to Rust: result/result.go tags the   *)
(* bytes of a response or of an error, RawResult (runner/result.rs) takes   *)
(* the tag off again.  base64 and the C string around the bytes give back    *)
(* what they were given (base64 has no NUL to end a C string early) and are  *)
(* left out; what Rust accepts as the text of an error is not.               *)
(*                                                                         *)
(* heap has the strings of one operation: its arguments, which are Rust's    *)
(* and which Go reads through a bare pointer (a GoString), and its answer,   *)
(* which Go allocates and Rust frees.  The memory is C's on both sides.       *)
(***************************************************************************)
EXTENDS Naturals, Sequences, SequencesExt

CONSTANTS
  Bytes,        \* the values of a byte
  Text,         \* those an error's text may hold: valid UTF-8, and no NUL
  MaxLen        \* bound: the length of a response or of an error's text

Ok == 0
QueryError == 1
ExecuteError == 2

ASSUME BytesAssumption == {Ok, QueryError, ExecuteError} \subseteq Bytes
ASSUME TextAssumption == Text \subseteq Bytes \ {0}
ASSUME LengthAssumption == MaxLen \in Nat

VARIABLES
  said,         \* what the exported function answers with, and its bytes
  wire,         \* the bytes behind the pointer it returns
  heard,        \* what BaseApp gets out of them
  call,         \* the exported function an operation has called, or is about to
  heap          \* the strings allocated

vars == <<said, wire, heard, call, heap>>

Nothing == [code |-> "none", bytes |-> <<>>]

Panic == [code |-> "panic", bytes |-> <<>>]

Init ==
  /\ said = Nothing /\ wire = <<>> /\ heard = Nothing
  /\ call = "none" /\ heap = {}

\* Mutant: an error is tagged as the other kind.
markOther(code, data) == <<3 - code>> \o data

\* markOk and markError.
markOk(data) == <<Ok>> \o data
markError(code, data) == <<code>> \o data

-------------------------------------------------------------------------------
(* Rust: the arguments. *)

Calls == {"Query", "Execute", "Simulate", "SetParamSet", "GetParamSet"}

\* The arguments a test gives as they are: paths, subspaces and type URLs.  The others
\* are base64, without NULs.
Raw == {"Query", "SetParamSet", "GetParamSet"}

\* Mutant: the CString is a temporary, dropped at the end of the macro's line.
RedefineTemporary(c, nul) ==
  /\ call = "none" /\ heard = Nothing
  /\ call' = c
  /\ nul => c \in Raw
  /\ heard' = IF nul THEN Panic ELSE heard
  /\ UNCHANGED <<said, wire, heap>>

\* redefine_as_go_string: owned C strings that live until the operation returns, and the
\* pointers to them.  An argument with a NUL panics, which drops those made before it.
redefine_as_go_string(c, nul) ==
  /\ call = "none" /\ heard = Nothing
  /\ call' = c
  /\ nul => c \in Raw
  /\ IF nul THEN heard' = Panic /\ UNCHANGED heap
            ELSE heap' = heap \union {"arguments"} /\ UNCHANGED heard
  /\ UNCHANGED <<said, wire>>

-------------------------------------------------------------------------------
(* Go: the functions that answer with a result. *)

Running == call # "none" /\ said = Nothing /\ heard = Nothing

\* C.CString copies the answer to memory that Go does not collect.
Respond(data) ==
  /\ Running
  /\ said' = [code |-> "ok", bytes |-> data]
  /\ wire' = markOk(data)
  /\ heap' = heap \union {"answer"}
  /\ UNCHANGED <<heard, call>>

\* Query fails with a QueryError; Simulate, SetParamSet and GetParamSet with an
\* ExecuteError; Execute panics, which ends the process.
Fail(text) ==
  LET kind == IF call = "Query" THEN "query" ELSE "execute"
  IN /\ Running /\ call # "Execute"
     /\ said' = [code |-> kind, bytes |-> text]
     /\ wire' = markError(IF kind = "query" THEN QueryError ELSE ExecuteError, text)
     /\ heap' = heap \union {"answer"}
     /\ UNCHANGED <<heard, call>>

-------------------------------------------------------------------------------
(* Rust: RawResult::from_ptr and into_result. *)

from_ptr(bytes) ==
  LET code == Head(bytes)
      content == Tail(bytes)
  IN IF code = Ok THEN [code |-> "ok", bytes |-> content]
     ELSE IF ~(ToSet(content) \subseteq Text) THEN Panic
     ELSE IF code = QueryError THEN [code |-> "query", bytes |-> content]
     ELSE IF code = ExecuteError THEN [code |-> "execute", bytes |-> content]
     ELSE Panic

\* Mutant: the answer is read through a borrowed pointer (CStr).
ReceiveBorrowed ==
  /\ said # Nothing /\ heard = Nothing
  /\ heard' = from_ptr(wire)
  /\ UNCHANGED <<said, wire, call, heap>>

\* CString::from_raw takes the answer over and drops it when it has been copied.  A
\* panic drops what the operation owns on its way.
Receive ==
  /\ said # Nothing /\ heard = Nothing
  /\ heard' = from_ptr(wire)
  /\ heap' = IF heard' = Panic THEN heap \ {"answer", "arguments"} ELSE heap \ {"answer"}
  /\ UNCHANGED <<said, wire, call>>

\* The operation returns and drops its arguments; the caller may call again.
Hear ==
  /\ heard \notin {Nothing, Panic}
  /\ said' = Nothing /\ wire' = <<>> /\ heard' = Nothing
  /\ call' = "none" /\ heap' = heap \ {"arguments"}

Next ==
  \/ \E c \in Calls, nul \in BOOLEAN : redefine_as_go_string(c, nul)
  \/ \E data \in SeqOf(Bytes, MaxLen) : Respond(data)
  \/ \E text \in SeqOf(Bytes, MaxLen) : Fail(text)
  \/ Receive \/ Hear

Spec == Init /\ [][Next]_vars

-------------------------------------------------------------------------------
\* What BaseApp hears is what the library said, also when the response is empty
\* or begins with a byte that is a tag itself; the only other outcome is a panic
\* over an error whose text is no UTF-8 or holds a NUL, or, before the library was
\* called, over an argument with a NUL.
HeardAsSaid ==
  heard # Nothing =>
    \/ heard = said
    \/ heard = Panic /\ said.code # "ok" /\ ~(ToSet(said.bytes) \subseteq Text)
    \/ heard = Panic /\ said = Nothing

\* "conversion from &CString to GoString requires CString to not get dropped before
\* referecing its pointer" (conversions.rs:16): while Go works on the arguments, and as
\* long as the operation may call it again, they are allocated.
ArgumentsOutliveCall == Running => "arguments" \in heap

\* Whether an operation returns or panics, and wherever it does, every string it and
\* the library made has been freed when it is over.
NothingLeaks == call = "none" \/ heard = Panic => heap = {}
===============================================================================
