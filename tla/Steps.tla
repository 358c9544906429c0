-------------------------------- MODULE Steps --------------------------------
(***************************************************************************)
(* What a handler of the proxy, instance and disk services does, as a      *)
(* sequence of steps.  The handlers share one form: create a client of the *)
(* process, engine or SPDK service, defer its Close, make calls and return *)
(* at the first error.  What the handlers of the same form do differently  *)
(* (a failure that is only logged, an error that is kept for the end, a    *)
(* refusal, a loop over the replicas) is a step of another kind.  Services *)
(* has the actions that take the steps.                                    *)
(***************************************************************************)
EXTENDS Naturals, Sequences

Step(do, what, skip) == [do |-> do, what |-> what, skip |-> skip]

Open(client) == Step("open", client, 0)     \* and defer its Close
Close(client) == Step("close", client, 0)
Call(method) == Step("call", method, 0)     \* its error is returned
Each(method) == Step("each", method, 0)     \* its error is kept in lastErr
Refuse == Step("refuse", "", 0)             \* return an error
Scan(loop) == Step("scan", loop, 0)         \* a loop of ReplicaScan
Stream == Step("stream", "Recv", 0)         \* a log, by LogStream

(* An error is only logged, and the next skip steps are not taken.         *)
Try(method, skip) == Step("try", method, skip)
TryOpen(client, skip) == Step("tryopen", client, skip)

(* The environment: os.Setenv and os.Getenv of a key.                      *)
Export(key) == Step("export", key, 0)
Read(key) == Step("read", key, 0)

(* From here on an error is put into the reply.                            *)
ErrorsInReply == Step("inreply", "", 0)

(* The clients of esync.NewTask are closed by a goroutine that waits for   *)
(* the end of the request's context, all others when the handler returns.  *)
Task(method) == <<Open("task"), Call(method)>>
Controller(method) == <<Open("controller"), Call(method)>>
SPDK(method) == <<Open("spdk"), Call(method)>>
Manager(method) == <<Open("pm"), Call(method)>>

(* A handler of a data engine: the scripts of its requests, one for each   *)
(* course that depends on what the request holds.                          *)
ByEngine(v1, v2) == [V1 |-> v1, V2 |-> v2]
Unimplemented == {<<Refuse>>}
=============================================================================
