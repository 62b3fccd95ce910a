-------------------------- MODULE MCWritePipeline --------------------------
(* WritePipeline for TLC, with what only TLC checks of it.                 *)
EXTENDS WritePipeline

\* "If this was a permanent error, the request itself was the problem"
\* (HandleWriteError): a write the app is told was rejected is one the server has
\* refused.
RejectedWasRefused == \A w \in Writes : told[w] = "rejected" => w \in refused

\* The signed-in user's queue is emptied again and again: no write waits for
\* ever, whatever streams break and whatever the server refuses on the way.
QueueDrains == []<>(queue[user] = <<>>)

=============================================================================
