--------------------------------- MODULE Call ---------------------------------
(***************************************************************************)
(* One call of a public method of a Lucairn client: what the three SDKs    *)
(* (TsRequest, GoRequest, PyRequest) and the tool of the MCP server        *)
(* (ToolRequest) share.  The gateway, the network and the HTTP library are *)
(* external: a response is a status and a body that arrives in chunks, and *)
(* the connection may break at any point.                                  *)
(***************************************************************************)
EXTENDS Naturals

CONSTANTS
  Cap,        \* the response cap of the client: maxResponseBytes
  ChunkSizes, \* sizes of the chunks a body may arrive in
  Timeout     \* the call's timeout, in ticks (where time is counted)

ASSUME SizesAssumption ==
  /\ Cap \in Nat \ {0} /\ Timeout \in Nat \ {0}
  /\ ChunkSizes \subseteq Nat \ {0}

VARIABLES
  method,      \* the method called
  caller,      \* the caller's signal or context: "none", "quiet" or "aborted"
  timer,       \* the timeout: "unset", "armed", "fired" or "cleared"
  cause,       \* whose abort came first: "none", "caller" or "timeout"
  pc,          \* where the call is
  status,      \* "ok" (2xx), "accepted" (202) or "failed" (not 2xx)
  accumulated, \* body bytes the client holds
  sent,        \* history: body bytes delivered so far
  ended,       \* history: what the complete body was, "no" before its end
  err,         \* what the pending operation failed with: "none", "network",
               \* "caller" or "timeout"
  outcome,     \* what the call returned or threw
  gap,         \* ticks since the network last made progress (PyRequest)
  elapsed      \* ticks since the call began, at most Timeout + 1 (PyRequest)

bodyVars == <<accumulated, sent, ended>>
clock == <<gap, elapsed>>
callVars == <<method, caller, timer, cause, pc, status, bodyVars, err, outcome,
              clock>>

Methods == {"messages", "getCertificate", "getCertificateSummary", "listAuditEvents",
            "chat_via_lucairn"}
Statuses == {"ok", "accepted", "failed"}

\* What a complete body is, as far as a client tells bodies apart: an object
\* with the fields the method requires, an object without one of them (or
\* null), or anything else.
Bodies == {"valid", "lacking", "text"}

Outcomes == {"value", "config", "TypeError", "caller", "timeout", "network",
             "http", "validation", "internal"}

Settled == pc = "settled"
settle(o) == pc' = "settled" /\ outcome' = o

Init ==
  /\ method \in Methods
  /\ caller \in {"none", "quiet", "aborted"}
  /\ timer = "unset" /\ cause = "none"
  /\ pc = "idle" /\ status = "none" /\ err = "none" /\ outcome = "none"
  /\ accumulated = 0 /\ sent = 0 /\ ended = "no"
  /\ gap = 0 /\ elapsed = 0
==============================================================================
