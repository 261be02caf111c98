------------------------------- MODULE ChainApp -------------------------------
(***************************************************************************)
(* The application object a test environment drives (env.App in            *)
(* testenv/setup.go): the part of the Cosmos SDK's BaseApp that main.go     *)
(* and setup.go call.  The SDK is not under src/, so every operator here    *)
(* is external, modelled from how the library uses it.                      *)
(*                                                                         *)
(* An application keeps a root store, which Commit makes durable, and,      *)
(* while a block is open, a finalize state: a write-back cache over the     *)
(* root.  FinalizeBlock opens that cache, or, when it is already open,      *)
(* runs the block's begin and end blockers in it; in both cases it ends by  *)
(* writing the cache through to the root.  Commit saves the root and drops  *)
(* the cache without writing it.  A context made from a finalize state      *)
(* keeps pointing at it: once the state is dropped, what is read through    *)
(* the context is the root and what is written through it is lost.          *)
(***************************************************************************)
EXTENDS Naturals

Kinds == {"account", "param", "tx"}

\* What a store holds, as the properties see it: how many operations of each
\* kind have written to it.  The number of transactions is the sequence number
\* of the account that signs them.
Store == [Kinds -> Nat]
EmptyStore == [k \in Kinds |-> 0]
Plus(store, k) == [store EXCEPT ![k] = @ + 1]

\* Function f with an entry of its own for x.
With(f, x, v) == [y \in DOMAIN f \union {x} |-> IF y = x THEN v ELSE f[y]]

\* last: height of the last committed block; saved: the store it committed;
\* live: is there a finalize state; fin: what it holds; gen: which one it is.
App == [last : Nat, root : Store, saved : Store,
        live : BOOLEAN, fin : Store, gen : Nat]

\* InitChain leaves a finalize state holding the genesis store.
InitChain ==
  [last |-> 0, root |-> EmptyStore, saved |-> EmptyStore,
   live |-> TRUE, fin |-> EmptyStore, gen |-> 1]

\* FinalizeBlock refuses every height but the one after the last committed.
CanFinalize(app, height) == height = app.last + 1

FinalizeBlock(app) ==
  IF app.live THEN [app EXCEPT !.root = app.fin]
              ELSE [app EXCEPT !.live = TRUE, !.fin = app.root, !.gen = @ + 1]

\* Commit dereferences the finalize state: it needs a live one.
Commit(app) ==
  [app EXCEPT !.last = @ + 1, !.saved = app.root, !.live = FALSE]

\* Is the finalize state a context was made from still the open one?
Attached(app, gen) == app.live /\ app.gen = gen

\* Reading and writing through a context made from finalize state gen.
Read(app, gen) == IF Attached(app, gen) THEN app.fin ELSE app.root
Write(app, gen, k) ==
  IF Attached(app, gen) THEN [app EXCEPT !.fin = Plus(@, k)] ELSE app

\* Mutant: the transaction is simulated where it should be delivered.
DeliverNothing(app) == app

\* SimDeliver runs a transaction in the open finalize state.
DeliverTx(app) == [app EXCEPT !.fin = Plus(@, "tx")]
===============================================================================
