---------------------------- MODULE Application ----------------------------
(***************************************************************************)
(* The crawler's application, crawler/app/application.go, over the         *)
(* seeker's pipeline of module Seeker: Run starts the HTTP server, the     *)
(* crawler and the handler's lookups, waits for its wait group and stops   *)
(* the listener.  The first interrupt cancels the context all three were   *)
(* given (cmd/crawler/launcher).                                           *)
(*                                                                         *)
(* The wait group is incremented twice and has three users.  It works out  *)
(* because the HTTP server, which nobody shuts down, does not return: the  *)
(* handler's Done stands in for the server's.                              *)
(*                                                                         *)
(* The process ends soon after Run has returned; the model lets its        *)
(* goroutines go on, so that what they do then can be seen.                *)
(***************************************************************************)
EXTENDS Seeker

VARIABLES
    ctx,        \* the context is cancelled
    appWg,      \* counter of Application.wg
    http,       \* runHttp: "serve", and "gone" if it cannot listen
    handler,    \* runHandler: "select", "lookup", "gone"
    crawler,    \* runCrawler: "wait" (crawler.Wait), "gone"
    run,        \* Run: "wait", "returned"
    listening   \* the UDP socket is open

appVars == <<ctx, appWg, http, handler, crawler, run, listening>>
allVars == <<vars, appVars>>

AppTypeOK ==
    /\ TypeOK
    /\ ctx \in BOOLEAN /\ listening \in BOOLEAN /\ appWg \in -1 .. 2
    /\ http \in {"serve", "gone"} /\ crawler \in {"wait", "gone"}
    /\ handler \in {"select", "lookup", "gone"} /\ run \in {"wait", "returned"}

(* Defective Run: all three goroutines are counted. *)
AddThrice == appWg = 3

(* Defective Run: only the crawler is counted. *)
AddOnce == appWg = 1

(* wg.Add(1) for the server and for the crawler. *)
Add == appWg = 2

AppInit ==
    /\ Init
    /\ ctx = FALSE /\ Add
    /\ http = "serve" /\ handler = "select" /\ crawler = "wait"
    /\ run = "wait" /\ listening = TRUE

(* The third Done would make the counter negative, which panics. *)
Done == appWg' = appWg - 1

(* The first interrupt; the next nine only print, the last one exits. *)
Interrupt ==
    /\ ~ ctx /\ ctx' = TRUE
    /\ UNCHANGED <<vars, appWg, http, handler, crawler, run, listening>>

(* ListenAndServe returns if its port is taken. *)
HttpFails ==
    /\ http = "serve" /\ http' = "gone" /\ Done
    /\ UNCHANGED <<vars, ctx, handler, crawler, run, listening>>

(* Every 10 seconds the handler looks up a random target, for 10 at most. *)
LookupTick ==
    /\ handler = "select" /\ handler' = "lookup"
    /\ UNCHANGED <<vars, ctx, appWg, http, crawler, run, listening>>

LookupRandom ==
    /\ handler = "lookup" /\ handler' = "select"
    /\ UNCHANGED <<vars, ctx, appWg, http, crawler, run, listening>>

HandlerEnds ==
    /\ handler = "select" /\ ctx
    /\ handler' = "gone" /\ Done
    /\ UNCHANGED <<vars, ctx, http, crawler, run, listening>>

(* crawler.Wait waits for the goroutine that stops the dst iterator, not   *)
(* for the seeker and not for the crawler's loop.                          *)
CrawlerEnds ==
    /\ crawler = "wait" /\ quit = "gone"
    /\ crawler' = "gone" /\ Done
    /\ UNCHANGED <<vars, ctx, http, handler, run, listening>>

(* wg.Wait returns; the deferred call closes the socket. *)
RunReturns ==
    /\ run = "wait" /\ appWg = 0
    /\ run' = "returned" /\ listening' = FALSE
    /\ UNCHANGED <<vars, ctx, appWg, http, handler, crawler>>

(* The crawler's goroutine that waits for the context. *)
SeesCtx == ctx /\ CtxDone

(* The pipeline's steps.  Packets that were accepted before the socket was *)
(* closed are still handled: nodes may be seen after that.                 *)
Pipeline ==
    /\ \/ \E n \in Nodes : Event(n)
       \/ \E w \in Workers : StartWorker(w) \/ Work(w)
       \/ Loop \/ Runner \/ Cleanup \/ Consumer \/ SeesCtx \/ CtxDoneClose
    /\ UNCHANGED appVars

App == HandlerEnds \/ CrawlerEnds \/ RunReturns
AppNext == Pipeline \/ Interrupt \/ HttpFails \/ LookupTick \/ LookupRandom \/ App

AppSpec == AppInit /\ [][AppNext]_allVars

(* As in FairSpec; the context's goroutine sees the cancellation, lookups  *)
(* end, and the handler's select does not ignore the context for ever.     *)
AppFairSpec ==
    /\ AppSpec
    /\ \A w \in Workers : /\ WF_allVars(Work(w) /\ UNCHANGED appVars)
                          /\ WF_allVars(StartWorker(w) /\ ~ runnerDone /\ UNCHANGED appVars)
    /\ WF_allVars(Loop /\ UNCHANGED appVars) /\ WF_allVars(Runner /\ UNCHANGED appVars)
    /\ WF_allVars(Cleanup /\ UNCHANGED appVars) /\ WF_allVars(Consumer /\ UNCHANGED appVars)
    /\ WF_allVars((CtxDoneClose \/ SeesCtx) /\ UNCHANGED appVars)
    /\ WF_allVars(LookupRandom) /\ SF_allVars(HandlerEnds)
    /\ WF_allVars(CrawlerEnds \/ RunReturns)

-----------------------------------------------------------------------------
(* Properties. *)

(* Although the wait group counts one goroutine less than there are: as    *)
(* long as the HTTP server serves, the counter is never negative (a panic) *)
(* and Run returns only when the handler's goroutine and the one crawler   *)
(* waits for have ended.                                                   *)
RunWaits ==
    http = "serve" =>
        /\ appWg >= 0
        /\ run = "returned" => handler = "gone" /\ crawler = "gone"

(* An interrupt ends everything: the consumer leaves its loop, the         *)
(* seeker's Stop returns and the event loop is left, Run returns and the   *)
(* socket is closed, although nobody shuts the HTTP server down; or the    *)
(* program panics, if the server had failed.                               *)
InterruptEndsAll ==
    ctx ~> \/ /\ cpc = "returned" /\ loop = "gone"
              /\ run = "returned" /\ ~ listening
           \/ appWg < 0
=============================================================================
