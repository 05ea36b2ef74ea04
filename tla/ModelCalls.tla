----------------------------- MODULE ModelCalls -----------------------------
(***************************************************************************)
(* How the services call their models.  Embedder.embed cuts its texts into *)
(* requests by size and writes the vectors of whichever request returns to *)
(* the places of its texts.  LLMRouter.chat refuses a prompt that cannot   *)
(* fit, repeats a call that may yet succeed, and keeps the counts that the *)
(* cost gates and reports read, for providers that report tokens in two    *)
(* ways.  Both repeat only what retry_policy.is_retryable allows.          *)
(***************************************************************************)
EXTENDS Integers, FiniteSets, SequencesExt

CONSTANTS
  TokenCounts,  \* sizes a text may have
  MaxTexts,     \* bound: texts in one call of embed
  InputCap, RequestCap, BatchSize,  \* _EMBED_MAX_INPUT_TOKENS, _EMBED_MAX_REQUEST_TOKENS, batch_size
  EmbedSlots, EmbedTries,   \* concurrency, max_attempts
  Caller,       \* tasks that chat at once
  ProviderOf,   \* the provider of each
  ChatTries,    \* defaults.retries.max_attempts
  MaxChats      \* bound: calls of chat

ASSUME CallsAssumption ==
  /\ TokenCounts \subseteq Nat /\ {InputCap, RequestCap} \subseteq Nat /\ BatchSize \in Nat \ {0}
  /\ EmbedSlots \in Nat /\ EmbedTries \in Nat \ {0} /\ ChatTries \in Nat \ {0}
  /\ IsFiniteSet(Caller)

VARIABLES
  counts,       \* token counts of the texts, truncated
  ranges,       \* <<first, last>> of the texts of each request
  batchAt,      \* batchAt[i] of the i-th request: "todo", "calling", "done" or "failed"
  batchTries,
  vectors,      \* vectors[p]: the text whose vector is at place p, 0 for None
  embedded,     \* "running", "returned" or "raised"
  chatTries,    \* attempts of the call each task has under way, 0 without one
  chats,        \* calls of chat begun
  fullIn, readIn, writeIn,  \* _input_full_tokens, _cache_read_tokens, _cache_write_tokens
  answered,     \* _calls_by_task
  taken         \* history: input tokens of the answered calls, and how many they are

embedVars == <<counts, ranges, batchAt, batchTries, vectors, embedded>>
chatVars  == <<chatTries, chats, fullIn, readIn, writeIn, answered, taken>>
callVars  == <<embedVars, chatVars>>

\* plan_batches, one item: the batch is closed before it would grow too large, but
\* an item too large for any goes alone.
Cut(acc, i) ==
  LET n == counts[i]
      close == i > acc.start /\ (acc.running + n > RequestCap \/ i - acc.start >= BatchSize)
  IN IF close THEN [start |-> i, running |-> n, out |-> Append(acc.out, <<acc.start, i - 1>>)]
     ELSE [acc EXCEPT !.running = @ + n]

\* The ranges <<first, last>>; a last batch is open when the items end.
Planned ==
  LET cut[i \in 0..Len(counts)] ==
        IF i = 0 THEN [start |-> 1, running |-> 0, out |-> <<>>] ELSE Cut(cut[i - 1], i)
      end == cut[Len(counts)]
  IN IF counts = <<>> THEN <<>> ELSE Append(end.out, <<end.start, Len(counts)>>)

\* The tokens up to each text.
Upto(texts) == LET sum[i \in 0..Len(texts)] == IF i = 0 THEN 0 ELSE sum[i - 1] + texts[i] IN sum

CallsTypeOK ==
  /\ DOMAIN batchAt = DOMAIN ranges /\ vectors \in [1..Len(counts) -> 0..Len(counts)]
  /\ Cardinality({i \in DOMAIN batchAt : batchAt[i] = "calling"}) <= EmbedSlots
  /\ \A i \in DOMAIN batchTries : batchTries[i] \in 0..EmbedTries
  /\ \A c \in Caller : chatTries[c] \in 0..ChatTries
  \* However a provider reports its cached tokens, each is counted once.
  /\ fullIn + readIn + writeIn = taken[1]
  /\ LET tasks == SetToSeq(Caller) IN
     Upto([i \in 1..Len(tasks) |-> answered[tasks[i]]])[Len(tasks)] = taken[2]

EmbedInit ==
  /\ \E n \in 0..MaxTexts : \E texts \in [1..n -> TokenCounts] :
       counts = [p \in 1..n |-> IF texts[p] > InputCap THEN InputCap ELSE texts[p]]
  /\ ranges = Planned
  /\ batchAt = [i \in DOMAIN ranges |-> "todo"] /\ batchTries = [i \in DOMAIN ranges |-> 0]
  /\ vectors = [p \in DOMAIN counts |-> 0] /\ embedded = "running"

\* reset_counters
ChatInit ==
  /\ chatTries = [c \in Caller |-> 0] /\ chats = 0 /\ answered = [c \in Caller |-> 0]
  /\ fullIn = 0 /\ readIn = 0 /\ writeIn = 0 /\ taken = <<0, 0>>

CallsInit == EmbedInit /\ ChatInit

-----------------------------------------------------------------------------
EmbedStart(i) ==
  /\ embedded = "running" /\ batchAt[i] = "todo"
  /\ Cardinality({j \in DOMAIN batchAt : batchAt[j] = "calling"}) < EmbedSlots
  /\ batchAt' = [batchAt EXCEPT ![i] = "calling"] /\ batchTries' = [batchTries EXCEPT ![i] = 1]
  /\ UNCHANGED <<counts, ranges, vectors, embedded, chatVars>>

\* Mutant: the place is that of a batch among batches of one size.
PlaceUniform(i, k) == (i - 1) * BatchSize + k

\* Where the k-th vector of request i goes.
PlaceOf(i, k) == ranges[i][1] + k - 1

EmbedReturns(i) ==
  /\ batchAt[i] = "calling"
  /\ batchAt' = [batchAt EXCEPT ![i] = "done"]
  /\ LET size == ranges[i][2] - ranges[i][1] + 1 IN
     vectors' = [p \in DOMAIN vectors |->
       IF \E k \in 1..size : PlaceOf(i, k) = p
       THEN ranges[i][1] + (CHOOSE k \in 1..size : PlaceOf(i, k) = p) - 1 ELSE vectors[p]]
  /\ UNCHANGED <<counts, ranges, batchTries, embedded, chatVars>>

\* A transient error waits and tries again, up to max_attempts, keeping its slot.
EmbedFails(i, retryable) ==
  /\ batchAt[i] = "calling"
  /\ IF retryable /\ batchTries[i] < EmbedTries
     THEN batchTries' = [batchTries EXCEPT ![i] = @ + 1] /\ UNCHANGED batchAt
     ELSE batchAt' = [batchAt EXCEPT ![i] = "failed"] /\ UNCHANGED batchTries
  /\ UNCHANGED <<counts, ranges, vectors, embedded, chatVars>>

\* "every batch reaches an outcome", then the failed ones are reported together.
EmbedEnds ==
  /\ embedded = "running" /\ \A i \in DOMAIN batchAt : batchAt[i] \in {"done", "failed"}
  /\ embedded' = IF \E i \in DOMAIN batchAt : batchAt[i] = "failed" THEN "raised" ELSE "returned"
  /\ UNCHANGED <<counts, ranges, batchAt, batchTries, vectors, chatVars>>

-----------------------------------------------------------------------------
\* A prompt over the window is refused before it is sent.
Chat(c, fits) ==
  /\ chatTries[c] = 0 /\ chats < MaxChats
  /\ chats' = chats + 1
  /\ chatTries' = [chatTries EXCEPT ![c] = IF fits THEN 1 ELSE 0]
  /\ UNCHANGED <<embedVars, fullIn, readIn, writeIn, answered, taken>>

\* The providers whose prompt_tokens include what was read from the prompt cache.
Inclusive == {"openai", "deepinfra"}

\* Groq has no cache, and only Anthropic says what was written to it.
CanReport(provider, read, write) ==
  (provider # "anthropic" => write = 0) /\ (provider = "groq" => read = 0)

\* The prompt tokens reported of n, read and write of them through the cache:
\* Anthropic's input_tokens include neither.
Reported(provider, n, read, write) == IF provider \in Inclusive THEN n ELSE n - read - write

ChatAnswers(c, n, read, write) ==
  LET prompt == Reported(ProviderOf[c], n, read, write)
      full == IF ProviderOf[c] \in Inclusive THEN prompt - read ELSE prompt
  IN
  /\ chatTries[c] > 0 /\ read + write <= n /\ CanReport(ProviderOf[c], read, write)
  /\ fullIn' = fullIn + (IF full > 0 THEN full ELSE 0)
  /\ readIn' = readIn + read /\ writeIn' = writeIn + write
  /\ answered' = [answered EXCEPT ![c] = @ + 1]
  /\ taken' = <<taken[1] + n, taken[2] + 1>>
  /\ chatTries' = [chatTries EXCEPT ![c] = 0]
  /\ UNCHANGED <<embedVars, chats>>

\* An error is repeated after a wait unless it is permanent, a cancellation, or the
\* last attempt; what a failed attempt was billed is not counted.
ChatFails(c, retryable) ==
  /\ chatTries[c] > 0
  /\ chatTries' = [chatTries EXCEPT ![c] = IF retryable /\ @ < ChatTries THEN @ + 1 ELSE 0]
  /\ UNCHANGED <<embedVars, chats, fullIn, readIn, writeIn, answered, taken>>

EmbedNext ==
  \/ \E i \in DOMAIN batchAt :
       EmbedStart(i) \/ EmbedReturns(i) \/ (\E retryable \in BOOLEAN : EmbedFails(i, retryable))
  \/ EmbedEnds

ChatNext ==
  \E c \in Caller :
    \/ \E fits \in BOOLEAN : Chat(c, fits)
    \/ \E read, write \in 0..1 : ChatAnswers(c, 2, read, write)
    \/ \E retryable \in BOOLEAN : ChatFails(c, retryable)

-----------------------------------------------------------------------------
\* Requests of any sizes that return in any order: embed gives each text its own
\* vector or says which ranges have none, and no request of several texts is over
\* the provider's cap.
VectorsInPlace ==
  /\ embedded = "returned" => \A p \in DOMAIN vectors : vectors[p] = p
  /\ embedded = "raised" =>
       \A i \in DOMAIN ranges : \A p \in ranges[i][1]..ranges[i][2] :
         vectors[p] = (IF batchAt[i] = "failed" THEN 0 ELSE p)
  /\ \A i \in DOMAIN ranges :
       ranges[i][1] = ranges[i][2] \/ Upto(counts)[ranges[i][2]] - Upto(counts)[ranges[i][1] - 1] <= RequestCap

=============================================================================
