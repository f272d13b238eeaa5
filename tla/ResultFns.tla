------------------------------ MODULE ResultFns -------------------------------
(***************************************************************************)
(* futures-util/src/fns.rs, the functions that map_ok, map_err and their   *)
(* like put around the caller's closure, and the futures and streams that  *)
(* are a Map with one of them (future/future/mod.rs,                       *)
(* future/try_future/mod.rs, stream/stream/mod.rs,                         *)
(* stream/try_stream/mod.rs).  seen is what an inspecting closure was      *)
(* called with.                                                            *)
(***************************************************************************)
EXTENDS Macros

IsOk(r) == r[1] = "ok"

(* The closures of the caller, and Into::into.                             *)
Closure(c, x) == <<c, x>>

OkFn(x) == Ok(x)
IntoFn(x) == Closure("into", x)
MapOkFn(c, r) == IF IsOk(r) THEN Ok(Closure(c, r[2])) ELSE r
MapErrFn(c, r) == IF IsOk(r) THEN r ELSE Err(Closure(c, r[2]))
MergeResultFn(r) == r[2]
UnwrapOrElseFn(c, r) == IF IsOk(r) THEN r[2] ELSE Closure(c, r[2])

(* ChainFn of ChainFn: map_ok, then map_err, then the value of either.     *)
MapOkOrElseFn(f, g, r) == MergeResultFn(MapErrFn(g, MapOkFn(f, r)))

(* The closure looks at the value, if it is called, and the value goes on. *)
InspectFn(x) == Some(x)
InspectOkFn(r) == IF IsOk(r) THEN Some(r[2]) ELSE None
InspectErrFn(r) == IF IsOk(r) THEN None ELSE Some(r[2])

------------------------------------------------------------------------------
FutureMapInto(r) == IntoFn(r)
FutureNeverError(r) == OkFn(r)
FutureOkInto(r) == MapOkFn("into", r)
FutureErrInto(r) == MapErrFn("into", r)
FutureMapOk(r) == MapOkFn("f", r)
FutureMapErr(r) == MapErrFn("g", r)
FutureMapOkOrElse(r) == MapOkOrElseFn("f", "g", r)
FutureUnwrapOrElse(r) == UnwrapOrElseFn("g", r)
FutureInspect(r) == InspectFn(r)
FutureInspectOk(r) == InspectOkFn(r)
FutureInspectErr(r) == InspectErrFn(r)

StreamMapOk(r) == MapOkFn("f", r)
StreamMapErr(r) == MapErrFn("g", r)
StreamErrInto(r) == MapErrFn("into", r)
StreamInspect(r) == InspectFn(r)
StreamInspectOk(r) == InspectOkFn(r)
StreamInspectErr(r) == InspectErrFn(r)

FnFutures == {"MapInto", "NeverError", "OkInto", "ErrInto", "MapOk", "MapErr", "MapOkOrElse",
              "UnwrapOrElse", "FutureInspect", "FutureInspectOk", "FutureInspectErr"}
FnStreams == {"StreamMapOk", "StreamMapErr", "StreamErrInto", "StreamInspect", "StreamInspectOk",
              "StreamInspectErr"}

(* What comes out for r.                                                   *)
Mapped(r) == CASE adapter = "MapInto" -> FutureMapInto(r)
               [] adapter = "NeverError" -> FutureNeverError(r)
               [] adapter = "OkInto" -> FutureOkInto(r)
               [] adapter = "ErrInto" -> FutureErrInto(r)
               [] adapter = "MapOk" -> FutureMapOk(r)
               [] adapter = "MapErr" -> FutureMapErr(r)
               [] adapter = "MapOkOrElse" -> FutureMapOkOrElse(r)
               [] adapter = "UnwrapOrElse" -> FutureUnwrapOrElse(r)
               [] adapter = "StreamMapOk" -> StreamMapOk(r)
               [] adapter = "StreamMapErr" -> StreamMapErr(r)
               [] adapter = "StreamErrInto" -> StreamErrInto(r)
               [] OTHER -> r

(* What an inspecting closure is called with.                              *)
Inspected(r) == CASE adapter = "FutureInspect" -> FutureInspect(r)
                  [] adapter = "FutureInspectOk" -> FutureInspectOk(r)
                  [] adapter = "FutureInspectErr" -> FutureInspectErr(r)
                  [] adapter = "StreamInspect" -> StreamInspect(r)
                  [] adapter = "StreamInspectOk" -> StreamInspectOk(r)
                  [] adapter = "StreamInspectErr" -> StreamInspectErr(r)
                  [] OTHER -> None

FnNew == [complete |-> FALSE, seen |-> << >>]
Called(r) == [self EXCEPT !.seen = @ \o Inspected(r)]

(* Map over IntoFuture, and over IntoStream.                               *)
FnFuture == /\ adapter \in FnFutures /\ call.pc = "poll"
            /\ PollOf(1, Finish(Mapped(Output(1)), [Called(Output(1)) EXCEPT !.complete = TRUE]),
                      Pending)
FnStream == /\ adapter \in FnStreams /\ call.pc = "poll"
            /\ PollSource(1, LAMBDA i : Yield(Mapped(Output(i)), Called(Output(i))), End, Pending)
FnTerminated == IF adapter \in FnFutures THEN self.complete ELSE SourceTerminated(1)
FnHint == SourceHint(1)
==============================================================================
