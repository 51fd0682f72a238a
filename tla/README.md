# A verification project for fuse-sidecar

fuse-sidecar is a local HTTP server that speaks the OpenAI chat-completions
protocol. A request for a *fusion model* makes one speculative call to the
primary model; if the answer contains tool calls it is passed through, otherwise
a panel of models is asked the same, a judge compares their answers, and the
primary streams a final answer written with the judge's analysis. Whenever a
phase fails, the speculative answer stands in.

The modules here model that program, TLC checks them on small instances, and
TLAPS proves the central invariants for every value of the constants. Line
numbers refer to `src/`; `PROJECT.json` maps every definition to the lines it
translates.

    tlc -config pipeline.cfg MCPipeline.tla
    tlapm PipelineProofs.tla

## Inventory

| Part | Source | State | Operations | Modules |
|---|---|---|---|---|
| fusion pipeline | `fusion/pipeline.go`, `detect.go` | the phase, the speculative response, the decision and the usage it builds | `Run`, `emitBuffered`, `degradeWithSpeculative`, `finalStream`, `contentGate` | `Pipeline`, `TurnContract` |
| panel | `fusion/panel.go` | a result per member, the panel's context | `runPanel`, `callPanelMember`, `summarizePanel` | `Pipeline`, `RequestShape` |
| judge, handoff | `fusion/judge.go`, `handoff.go` | none | `runJudge`, `buildHandoffMessages` | `Pipeline` (the calls), `RequestShape` (the requests) |
| answer measurement | `countingSink`, `pipeline.go:356-400` | length and beginning of the answer | `Delta`, `head` | `AnswerHead` |
| SSE stream | `server/stream.go` | mutex, `closed`, heartbeat channels | `Send*`, `StartHeartbeat`, `Close` | `SSEWriter` |
| HTTP server | `server/server.go` | `liveState`, counters | `handleChatCompletions`, `Reload` | `Server` |
| process | `cmd/fuse-sidecar/main.go` | signals, the HTTP server | SIGHUP loop, shutdown | `Server` |
| configuration | `config/config.go` | none after loading | `Load`, `applyDefaults`, `Validate` | `Config`, `Snapshots` (`Retention`), `Pipeline` (assumptions) |
| provider registry | `providers/factory.go`, `provider.go` | the registered providers | `BuildRegistry`, `Get` | `Config`, `Server`, `Pipeline` |
| snapshot files | `obs/snapshot.go` | a directory | `Write`, `prune` | `Snapshots` |
| status buffer | `obs/metrics.go` | a ring | `Push`, `Recent` | `StatusRing`, `StatusLog` |
| metrics | `obs/metrics.go` | counters, histograms | `Add`, `Observe`, `Render` | `Server` (counters only) |
| provider clients, streaming | `providers/openai.go`, `anthropic.go`, `transport.go` | scanner and parser locals of one call | `Stream`, `post`, `scanSSE`, `parse*Stream`, `toUsage` | `StreamParse`, `ProviderStream` |
| provider clients, requests | `providers/openai.go`, `anthropic.go` | none | `buildOpenAIRequest`, `buildAnthropicRequest` and their helpers | `RequestShape` |
| logging | `obs/log.go` | a file | | not modelled |

How they interact. `main` builds configuration, registry and `Server`, and runs
the SIGHUP loop beside the HTTP server. A handler loads the `liveState` once,
opens an `SSEWriter`, starts its heartbeat goroutine and calls `Pipeline.Run`
with a sink that writes to it. `Run` calls providers: by itself, and for the
panel from one goroutine per member. When it returns, the handler updates
counters, pushes the decision on the status ring and writes a snapshot file;
other handlers do the same at the same time.

What is hard. The client may leave at any moment, which cancels the request's
context a little later and makes writes fail later still. A final stream that
fails may or may not have shown something to the client. Panel members race each
other, their shared timeout and the cancellation. The heartbeat shares the
ResponseWriter with the handler and must be gone before the handler returns.
Configuration is swapped under running requests. Prunes work on stale listings.
An upstream's stream may be cut at any line, end with or without its terminator,
and be refused by the sink in the middle of an event. Calls of one turn share a
provider's prefix cache only if the requests agree up to the marked block.
`PROJECT.json` lists these hazards one by one, at their lines.

## The modules

**Pipeline** is one call of `Run`. `pc` is the phase; `member` has one record per
panel endpoint, moved by its goroutine's actions (`MemberReturns`, `MemberFails`,
`MemberCutShort`); `panelCtx` and `ctx` are the contexts; `wire` is what the
client has been sent, `conn` whether it is there, `sinkErr` whether a write was
refused (refusals are final, as net/http's are). Texts are only empty or not. The
items on the wire are the speculative text (`"spec"`) and its tool-call deltas
(`"call"`); a content delta of the final stream (`"final"`) or one of its tool-call
or reasoning deltas (`"aside"`), which `contentGate` lets pass without setting
`sawContent`; and the two frames of `SendFinish`, `"finish"` and `"done"`. Every item
is a step of its own, in `emitBuffered` as in the stream, and `todo` holds those yet to
come, so that the client can leave between any two. `stream` is the state of the final call:
`StreamOpens` is the upstream's answer, `StreamContent` and `StreamAside` are deltas that the
sink takes or refuses, `StreamBreaks` is the call failing before or after its answer,
`StreamEnds` leads to `"finishing"`, where `Done` writes its two frames. Progress deltas
are left out: `progress` ignores its errors (`pipeline.go:252`). `usage` counts the responses
rolled up into the decision; `spent` those an upstream bills: a buffered
call when it returns, a streamed one from the moment it is answered.

**TurnContract** is what a turn promises: the text comes from one source (`Deliver`); a
final stream's other deltas (`DeliverAside`) never come behind speculative text; the
finish reason (`Announce`) and `[DONE]` (`Finish`) are two steps, nothing is delivered
after the first, and between them a turn may fail only if its client has left; `[DONE]`
comes with an outcome that names the source. `Pipeline` implements it
(`ImplementsContract`), with the answer's source, the asides, the marker and the
outcome read off `wire` and `dec`. What it does not promise, because the code does
not, is that a degraded answer stands alone: tool-call or reasoning deltas of
the broken final stream may be in front of it.

**SSEWriter** is the stream below: handler and heartbeat, mutex and channels, and
the three steps of `Close`. The frames that `Run` sends are left open: any number
of deltas, then `SendFinish` or the error event and the terminator. `ticks` counts
the ticks that the ticker's channel took, `KeepsAlive` asks for a ping each.

**Server** is the process: the configuration file and the operator, the SIGHUP
loop (`hupCh` holds one signal), the handlers from the load of `liveState` to the
last record, and the shutdown with its deadline. A turn looks up providers and
ends with some outcome; `Pipeline` says which.

**Snapshots** is the directory of snapshot files. `must` and `may` are what a
directory listing has to and may contain while files come and go during it.
Requests write in any order, whatever their start times, and the process may be
killed.

**StatusRing** is the ring of `/admin/status`, with Go's remainder; it implements
**StatusLog**, the last `Cap` decisions, newest first.

**AnswerHead** is `countingSink` with texts as UTF-8 bytes.

**ProviderStream** is what `Provider` and `Sink` promise each other
(`provider.go:14-44`): deltas in order, none skipped or repeated, `Done` once,
after the last of them, and no success without all of them.

**StreamParse** is one call of `Stream` with either client. The upstream sends an
event name line, data lines and blank lines, and may close or break the body
after each; `scanSSE`'s locals are `eventName` and `dataParts`, the parsers' are
`finish` and `usage`. `OpenAIVerdict` and `AnthropicVerdict` are what the handlers
decide of an event: to read it, to pass over it, to end or to fail the stream.
`Hand` gives its deltas to the sink, which may refuse any of them. Two facts worth
knowing are modelled as they are: a clean end of the body counts as the end of the
answer even without a terminator, and an `error` event of the Messages API is
passed over like any unknown one. `Pipeline`'s `StreamContent`,
`StreamAside` and `StreamBreaks` are `Progress` steps of `ProviderStream`, its `StreamEnds`
and `FinishAccepted` are `Finish`, with the two writes of `Done` taken apart.

**RequestShape** is a turn seen as the requests it makes. `base` is the client's
request, `sent` the calls so far, each with the body its client posts or the fact
that the client refused to translate it. Texts and tool calls are words; the empty
text is `"none"`, a call whose arguments are not JSON `"garbled"`. The actions
follow `Run`: `Speculate`, `CallMember`, `RetryMember`, `Judge`, `RetryJudge`,
`Final`; whether an answer is empty or parses is left open.

**Config** is the way from a file to the configuration in use: `ApplyDefaults`, then
`Validate`, then `BuildRegistry` (`Buildable`). `Server` extends it. `Usable` is what
`Pipeline` assumes of a model.

A definition named `X_Something` is `X` with one plausible mistake; it takes no
part in any specification and is there to show that a property can fail.

## The runs

| Run | Bounds | What it shows |
|---|---|---|
| `pipeline` | panel of 3, quorum 2, up to 2 tool calls, up to 2 deltas of the final stream, complete registry or one endpoint missing | one answer, decision and wire agree, panel isolation, judge input, usage and the contract; the panel ends by itself, a cancelled turn returns, and every turn ends when the models answer |
| `sse_safety` | 3 deltas, 3 ticks | frames do not mix, the stream is terminated once, `Close` returns and then nobody writes, every tick becomes a ping |
| `server_safety` | 2 requests, 6 files, 1 edit, 1 SIGHUP | reload, requests, records and shutdown interleaved; a turn's configuration is whole and usable |
| `server_reload` | 1 request, 2 edits, 3 SIGHUPs | the last SIGHUP takes effect; shutdown ends |
| `snapshots` | 4 requests, retention 2, a crash at any time | the newest files are kept, the directory stays small |
| `status_ring` | capacity 4, 3 snapshots, no bound on pushes | the ring is the log, and every push reaches it |
| `answer_head` | 11 bytes in characters of one to four, buffer 7, head 5 | length, buffer and head |
| `stream_parse` | 5 events per stream, both clients, every cut, split and refusal | whole answers, no false failure, finish reason and usage, the streaming contract |
| `request_shape` | 3 messages of 9 kinds, 6 tool offers, 2 configurations | whole conversation, shared prefix, no late refusal |

Why the bounds are enough. A panel of three with a quorum of two has
every number of answers below the quorum, at it and above it, in every order with failures,
retries, the timeout and the cancellation; a quorum equal to the panel would hide an
off-by-one, because nothing is above it. Two deltas are the least for a stream to fail
before, between and after them, and for text to come before an aside and after
one. Three ticks let a
ping fall before, during and after the terminator and `Close`. The six files are
two that load and share no provider, one of them with its quorum left to the
default, and one for each way of failing `Validate` or `BuildRegistry`: an undefined
provider, a quorum beyond the panel, a missing key, a missing base URL; three signals cover one waiting, one being served and one
more. Four writers with retention two make listings that are stale by additions
and by removals at once. The two requests of `server_safety` are interchangeable,
and the run uses that symmetry; it checks invariants only. Five events hold a
complete stream of the Messages API (start, block, delta, `message_delta`, stop) and
an OpenAI stream with two deltas, usage and `[DONE]`, and an ill-formed event in any
place. Three messages put a system message before, between and after the
others; one configuration has both cache-aware members behind the primary's
model, the other an OpenAI primary and an Anthropic judge. The runs of
sentences use a panel of one and conversations of one message, which is enough to
violate them.

Fairness. `Pipeline`: weak fairness of the sidecar's own steps (`Sidecar`): the
Go scheduler runs the goroutine, timers fire, calls end when their context does.
Nothing is assumed of upstream models, except as the hypothesis of `TurnEnds`, nor
that net/http notices that a client left. `SSEWriter`: both goroutines run; strong
fairness where they take the mutex, because `sync.Mutex` hands itself to a
waiter that has starved for a millisecond. `Server`: the SIGHUP loop and the
shutdown's timer run; turns may last for ever.

### What documents and comments say and the code does not do

Three runs check a sentence of the repository and find it violated; the findings
in `PROJECT.json` quote them.

| Run | Sentence | What happens |
|---|---|---|
| `claim_usage` | `pipeline.go:33-35`, usage of every upstream call of the turn | the empty first answer of a member asked twice is overwritten with its usage, and a final stream that breaks reports none |
| `claim_retry_budget` | `panel.go:17-18`, retried with a larger budget | the client's own `max_tokens` is ignored by the retry, which may be smaller |
| `claim_cache_shared` | README.md:149-150, the final call reads the speculative call's prefix | not when the client offers tools: they are part of the prefix and the final call drops them |

Other sentences that the models contradict as they stand, without a run of their
own: the head is "valid UTF-8" (`pipeline.go:385`), but the walk back drops the
continuation bytes of a last character also when that was whole and keeps its first
byte (`HeadNearlyValid` is what holds); a final stream without content is `fusion` (`pipeline.go:52`);
"any failure" falls back to the speculative answer (README.md:30-32), but a final stream that
breaks after its first content is a failed turn; a degraded answer is the
speculative one (`pipeline.go:56-58`), but tool-call or reasoning deltas of
the final stream may precede it (`OneAnswer` says what holds);
`panel_insufficient` may degrade to an empty answer (`pipeline.go:56`); below the
quorum the speculative answer joins the panel and the judge is asked (README,
`panel_min_success`); a ping may
follow `[DONE]` (`stream.go:120`); a failed turn records no spend (README, "every
turn"); a speculative, judge or final call that is never answered hangs the
stream, because only the panel has a timeout (README.md:31-32, "never a hung
stream"; `TurnEnds` needs the hypothesis that models answer); the panel is cancelled
with the request (`pipeline.go:243-247`, "still needs to finish the panel");
a degraded decision carries no panel (README.md:192-198); a `snapshot_retention` of
zero becomes 1000 (`config.go:36-38`, "Zero means keep none"); in a conversation
that ends in a system message the cache marker falls on the handoff
(`provider.go:117-119`); a `tool_choice` of `null` is an unknown string to the
Anthropic client, whose request is then refused; `max_tokens` of a judge's endpoint
is ignored (`config.go:77-81`).

## What is proved

TLAPS proves the following for every value of the constants that the named
assumptions allow: a finite panel, a quorum within it and distinct endpoints for
`Pipeline`; natural numbers for the bounds; configuration records for `Server`; well-typed
events, requests and endpoints for `StreamParse` and `RequestShape`; a
positive retention for `Snapshots`; a positive capacity for `StatusRing`; a head no
longer than its buffer for `AnswerHead`. They are what `Validate`, `applyDefaults`,
`NewStatusRing` and the constants of `countingSink` enforce.

* `PipelineProofs`: `OneAnswer`, `DecisionMatchesWire`, `PanelIsolation`,
  `JudgeHasInput`, `UsageAccounting`, `TypeOK`, and `Spec => ImplementsContract`. None
  of the properties is inductive. `IInv` adds `WireInv` (`StreamInv`: a final stream has put
  nothing on the wire but its deltas and the frames of `Done`, content only after `contentGate`
  saw it; `EmitInv`: while `emitBuffered` runs, what is left is an end of the buffered response,
  and a client that stayed has read the beginning of it, behind asides only if the final
  stream failed), `ControlInv` (a decision is made
  exactly when `Run` returns; contexts end for a reason) and `MemberInv` (what a
  member has got, against its attempts and the phase), without which a step could
  bill an answer twice. Types, wire and panel are proved in turn, each with one case
  per action; the refinement shows that every step is invisible, or delivers,
  finishes or fails. The accounting is about cardinalities of two sets of members: a
  lemma says how each of them changes when one member does.
* `SSEWriterProofs`: `ExclusiveWriter`, `NoWriteAfterReturn` and `WellTerminated`, from
  `IInv`: the holder of the mutex is who is in the ResponseWriter, the frame on its way
  is one that the phase sends, `hbDone` is closed by the heartbeat's exit
  (`LockInv`); and as long as the client is there, the wire holds what the phase
  says, pings aside (`WireInv`).
* `ServerProofs`: `ProviderFound`, from `IInv`: every `liveState` comes whole from
  one file that validated and built, and a running turn's model is in it. From the
  same invariant `TurnsUsable`: defaults come before validation and leave the
  endpoints alone, so that a running turn has a quorum its panel can reach.
  `Reconciled` speaks of the moments between requests; `RecordInv` and `CountInv` say
  what holds in the middle of the handlers, where a failed turn is counted before
  its entry is pushed and any other one after.
* `SnapshotsProofs`: `NewestKept`, from `IInv`: a name chosen for removal had
  `Retention` newer names in the listing, the listing is part of what was ever
  created, and created names only grow in number, so that it is still old
  enough when it is removed. `OverflowBounded` needs to know which request is
  answerable for the files that are left: of what two listings had to contain and is
  left of it, one contains the other (`ChainInv`), a request finds its own file in its
  listing (`OwnInv`), and a prune leaves `Retention` files of its listing, what it has yet
  to remove and what would not go (`LeftInv`). Every file either belongs to a request that
  is still writing or was cut short, or is in the widest of the listings.
* `StatusRingProofs`: `Spec => ImplementsLog`, `EachPushLogged` and `RecentFilled`, from the slots
  that are filled and a lemma on small remainders.
* `StreamParseProofs`: `WholeAnswer`, `NoFalseFailure`, `Reported`, `UsageAddsUp` and
  `Spec => ImplementsStream`, from `IInv`: while the scanner reads, `dataParts` and
  `eventName` are what was sent of the current event, and what has been handed over is
  the answer without that event (`CallInv`); `finish` and `usage` are what the events handled so
  far report (`ReportInv`), which speaks of the last event with some property: one more
  event is the last one, or changes nothing. `NoFalseFailure` is inductive beside
  them. One lemma each says what `Hand`, `Handle` and `Flush` keep.
* `AnswerHeadProofs`: `BufferIsPrefix` and `HeadNearlyValid`. The answer itself is never
  cut inside a character (`IInv`); a prefix of it that is cut anywhere is valid but for
  the bytes of its last character, and the walk back leaves at most the first of them.
* `RequestShapeProofs`: `NoLateRefusal`, `WholeConversation` and `PrefixShared`, from
  `IInv`. `TurnInv`: the primary has accepted the client's conversation before anything
  else is asked; the final request has the same turns and two more that every client
  takes, and no tools to refuse; the judge's request is the sidecar's own; a retry
  differs in its budget only. `SentInv`: each body sent is the translation of the request
  that its phase asks for. The rest is about that translation: `splitSystem` takes the
  words of a conversation apart and loses none, a turn says its message's words, a marker
  none, and the handoff adds its two at the end; up to the breakpoint the turns of two
  calls are the same ones, because the split of a conversation's first messages does not
  depend on what comes after, and the breakpoint is the last message's turn with the
  handoff or without it.

The prover cannot instantiate the library's induction theorems, which take an operator.
Where a proof needs a least or greatest number, or what a recursive function makes of a
whole sequence, it uses a first-order form: the finite sets are well-founded under
inclusion (a theorem of the library), hence every nonempty set of naturals has a least
element (`LeastNumber`), hence a set that contains 0 and, up to a bound, the successor of
each member contains every number up to that bound (`UpTo`). `Split` and `Flat` are recursive
functions for that reason, and their recursion equations are themselves proved
(`SplitSteps`, `FlatSteps`).

Model-checked only: liveness (`PanelBounded`, `CancelEndsTurn`, `TurnEnds`, `CloseReturns`,
`KeepsAlive`, `ReloadTakesEffect`, `ShutdownEnds`), for which TLAPS has no rules here. Every
invariant and every refinement that a run checks is also a theorem.

## What is not modelled

The texts: prompts, JSON, SSE formatting, log lines. The parser of the judge's
answer, which is one choice in `Pipeline`. The translation of a non-streaming
response, a copy of fields; sampling parameters, response formats, headers, and
the field the token budget goes into. Comment lines of an event stream. The read-only endpoints, whose
handlers load one pointer or hold one mutex. Histograms and percentiles. The
start-up sequence, which runs before anything is shared, and the branch of
`handleChatCompletions` for a ResponseWriter that cannot flush, which net/http
does not hand out. A negative `snapshot_retention` switches `Write` off and
leaves nothing to model.

## Plan

Done: `TurnContract` and `Pipeline` first, because they hold the program's reason
to exist; `SSEWriter` below them; `Server` above; `Snapshots`, `StatusRing` and
`AnswerHead` beside them; then `StreamParse` under the contract `ProviderStream`,
`RequestShape`, and `Config` under `Server`; proofs for all eight components that
have a specification of their own.

Next:

1. `Turn`: `Pipeline` composed with `SSEWriter`, one turn from the handler's
   start to its return, as an implementation of a contract that includes the
   terminator and the error event.
2. Lemmas about `Config` (`ApplyDefaults` keeps what is set, `Validate` rejects what
   `Pipeline` cannot work with) stated by themselves.
