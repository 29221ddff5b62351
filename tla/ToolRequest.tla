----------------------------- MODULE ToolRequest -----------------------------
(***************************************************************************)
(* mcp-server/src/server.ts and gateway-client.ts, direct-http: one call   *)
(* of the tool chat_via_lucairn, from the handler of CallToolRequestSchema *)
(* down to sendMessage and back to a tool result.  It runs on the same     *)
(* fetch as the TypeScript client (ResponseArrives, TransportFails,        *)
(* TimerFires), but its signal is AbortSignal.timeout alone: nobody else   *)
(* can abort it, and nobody clears it.  The body is one `await res.text()` *)
(* without a cap, so its bytes are not counted.                            *)
(***************************************************************************)
EXTENDS TsRequest

\* The outcomes of a 2xx body in sendMessage and formatToolResult: the shape guard
\* looks for an array `content`.  Reading it from null throws, as does a block
\* of it that is null, and the handler reports either as an internal error.
afterText(b) ==
  IF b = "valid" THEN {"value"}
  ELSE {"validation"} \cup (IF b = "lacking" THEN {"internal"} ELSE {})

\* Another tool, more input than MAX_INPUT_BYTES, or arguments that
\* parseChatToolArgs refuses: nothing is sent.  Otherwise the signal is created
\* and fetch is called.
CallTool ==
  /\ pc = "idle"
  /\ \/ settle("config") /\ UNCHANGED timer
     \/ timer' = "armed" /\ pc' = "fetching" /\ UNCHANGED outcome
  /\ UNCHANGED <<method, caller, cause, status, bodyVars, err, clock>>

\* res.text() resolves.  A 202 (ASYNC_PROCESSING) is an error like every status
\* that is not 2xx, whatever its body.
TextArrives(b) ==
  /\ pc = "reading"
  /\ ended' = b
  /\ \E o \in IF status = "ok" THEN afterText(b) ELSE {"http"} : settle(o)
  /\ UNCHANGED <<method, caller, timer, cause, status, accumulated, sent, err, clock>>

\* What fetch rejects with is a GatewayError, "timeout" or "network_error".
\* res.text() is outside that try: what it rejects with reaches the handler as it
\* is, and becomes an internal error.
CatchTool ==
  /\ pc = "rejected"
  /\ settle(IF status = "none" THEN err ELSE "internal")
  /\ UNCHANGED <<method, caller, timer, cause, status, bodyVars, err, clock>>

ToolGateway ==
  \/ \E s \in Statuses : ResponseArrives(s)
  \/ \E b \in Bodies : TextArrives(b)
  \/ TransportFails

ToolNext == CallTool \/ ToolGateway \/ TimerFires \/ CatchTool

\* As for the TypeScript client; while the call is pending its socket and stdin
\* keep the event loop alive, so that the timer fires although Node unrefs it.
ToolFairness == WF_callVars(CallTool) /\ WF_callVars(CatchTool) /\ WF_callVars(TimerFires)
==============================================================================
