--------------------------- MODULE SdkProperties ---------------------------
(***************************************************************************)
(* What the SDK's capture must guarantee, stated over SdkCapture.tla.      *)
(***************************************************************************)
EXTENDS SdkCapture

\* Span a left its scope before b did: by nesting in one task, or as it happened
\* between tasks; and it was not deferred behind one that was emitted at once.
LeftBefore(a, b) ==
  /\ scope[a].task = scope[b].task \/ a \in after[b]
  /\ a \in captured => b \in captured
InOrder(a) ==
  /\ a \notin refused \cup invalid
  /\ a = scope[a].root \/ LeftBefore(a, scope[a].root)

\* No span is handed to the collector twice, whichever threads share its
\* accumulator (tracer.py SpanScope.__exit__).
OfferedOnce ==
  \A x, y \in Threads : \A i \in 1..Len(todo[x]), j \in 1..Len(todo[y]) :
    /\ todo[x][i] \notin offered
    /\ todo[x][i] = todo[y][j] => x = y /\ i = j

\* When the root of a tree is emitted, every span that left its scope before and
\* was not deferred behind it goes with it (tracer.py:194, config.py
\* defer_capture and its first-in first-out executor).
NothingLeftBehind ==
  \A s \in Exited :
    InOrder(s) /\ scope[s].root \in offered =>
      s \in offered \/ \E x \in Threads : In(s, todo[x])

\* Such a span reaches the collector after every such span that encloses it, as
\* the foreign key on parent_span_id requires (tracer.py:209).
AncestorsFirst ==
  \A s \in offered : \A a \in above[s] :
    InOrder(a) /\ LeftBefore(s, a) => a \in earlier[s]

\* A successful flush or shutdown means that every span whose scope was left
\* before the call has been emitted, and a root span accepted by the collector
\* (config.py flush: the barrier job, then Collector.flush).
FlushCoversExits ==
  \A s \in flushed :
    \/ s \in invalid
    \/ Appended(s) /\ (IsRoot(s) => s \in accepted)

\* A captured span is emitted in the end or dropped by a closed executor: its
\* callback never waits for a blob job behind it on the same thread (config.py
\* defer_capture, _capture_result).
CapturedSpansSettle ==
  \A s \in Spans : s \in Exited ~> (Appended(s) \/ s \in refused \cup invalid)

\* flush and shutdown return (config.py flush, shutdown).
CallsReturn == app.at # "idle" ~> app.at = "idle"

-----------------------------------------------------------------------------
(* Claims of the documentation that the code does not meet.                *)

\* The comment in SpanScope.__exit__: "Each span appends itself only after all of
\* its own descendants already have (nested __exit__ order)".
DescendantsAppendFirst ==
  \A s \in Exited \ (refused \cup invalid) : \A a \in above[s] :
    scope[a].task = scope[s].task /\ Appended(a) => Appended(s)

\* docs/spec: shutdown "stops acceptance, performs the same bounded flush, and
\* closes resources".
ShutdownStopsAcceptance ==
  app.call = "shutdown" /\ app.at = "idle" => ~sink

=============================================================================
