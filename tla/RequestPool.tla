---------------------------- MODULE RequestPool ----------------------------
(***************************************************************************)
(* ytl::RequestPool (network/include/https.h, network/src/https.cpp): the  *)
(* table of requests, the one vector of response bytes they share, and the *)
(* libcurl easy handles, which the pool hands out in turn and libcurl      *)
(* drives from inside update.                                              *)
(*                                                                         *)
(* The pool is used by one thread.  update runs curl_multi_perform, whose  *)
(* callbacks deliver data and whose transfers end in any order, and then   *)
(* reads the messages; pc says where it is.  A chunk of a response is one  *)
(* element of responses: the request it is for and its number.  The URL,   *)
(* the method (which create ignores) and the status code (which nothing    *)
(* sets) are left out, and so is data_offset, which is 0 in every request. *)
(***************************************************************************)
EXTENDS Integers, Sequences, FiniteSets, SequencesExt

CONSTANTS
  MAX_CONCURRENT_REQUESTS,  \* slots, and easy handles (512 in https.h)
  Codes,                    \* results with which a transfer may end
  MaxChunks,                \* bound: chunks delivered
  MaxStarts,                \* bound: calls of start for one request
  NULL

CurlCodes == {"CURLE_OK", "CURLE_URL_MALFORMAT", "CURLE_COULDNT_CONNECT",
              "CURLE_OPERATION_TIMEDOUT", "CURLE_OUT_OF_MEMORY",
              "CURLE_SSL_CONNECT_ERROR", "CURLE_COULDNT_RESOLVE_HOST", "other"}

ASSUME RequestAssumption ==
  /\ MAX_CONCURRENT_REQUESTS \in Nat \ {0}
  /\ Codes \subseteq CurlCodes
  /\ MaxChunks \in Nat
  /\ MaxStarts \in Nat
  /\ NULL \notin Int

Indices == 0 .. MAX_CONCURRENT_REQUESTS - 1

\* A request: its state and error, data_length, and curl, the place of its easy
\* handle.  An easy handle: writedata, the request its write callback gets, the
\* options the user set, its phase (idle, running, or done and not yet removed), and
\* the result of its last transfer.  A chunk: its request and its number.
VARIABLES
  requests, free_indices, responses, generation, active_count, next_curl_handle,
  easy,     \* libcurl: the easy handles, by their place in curl_handles
  msgs,     \* libcurl: handles with an unread CURLMSG_DONE
  pc,       \* where update is, or how the pool ended
  handles,  \* history: the handles create has returned
  starts,   \* history: per request, the calls of start
  again,    \* history: calls of start on a handle that was in a transfer
  log       \* history: the chunks in the order of their delivery

poolVars == <<requests, free_indices, responses, generation, active_count, next_curl_handle>>
histVars == <<handles, starts, again, log>>
vars     == <<poolVars, easy, msgs, pc, histVars>>

Ended == {"destroyed", "undefined"}

Init ==
  /\ requests = [i \in Indices |-> [state |-> "FREE", error |-> "NONE",
                                    data_length |-> 0, curl |-> NULL]]
  /\ free_indices = [k \in 1 .. MAX_CONCURRENT_REQUESTS |-> MAX_CONCURRENT_REQUESTS - k]
  /\ responses = <<>>
  /\ generation = 0
  /\ active_count = 0
  /\ next_curl_handle = 0
  /\ easy = [c \in Indices |-> [writedata |-> NULL, options |-> {}, phase |-> "idle",
                                result |-> NULL]]
  /\ msgs = <<>>
  /\ pc = "idle"
  /\ handles = {}
  /\ starts = [i \in Indices |-> 0]
  /\ again = 0
  /\ log = <<>>

valid_handle(h) ==
  /\ h.index < MAX_CONCURRENT_REQUESTS
  /\ h.generation = generation
  /\ requests[h.index].state # "FREE"

get_state(h) == IF valid_handle(h) THEN requests[h.index].state ELSE "ERROR"

get_response(h) ==
  IF valid_handle(h) THEN SubSeq(responses, 1, requests[h.index].data_length) ELSE <<>>

-----------------------------------------------------------------------------
(* create and the options.                                                 *)

\* alloc_slot: the list it takes from.  When it is empty the generation goes up,
\* which makes every handle invalid, and the FREE slots are listed; no method
\* that is called makes a slot FREE.
Listed ==
  LET free == {i \in Indices : requests[i].state = "FREE"} IN
  IF free_indices # <<>> THEN free_indices
  ELSE CHOOSE list \in [1 .. Cardinality(free) -> free] :
         \A j, k \in DOMAIN list : j < k => list[j] < list[k]

\* Mutant: the generation goes up when the last listed slot is taken.
NextGenerationEager == IF Len(free_indices) > 1 THEN generation ELSE generation + 1

NextGeneration == IF free_indices # <<>> THEN generation ELSE generation + 1

\* init_curl_handle resets the handle and ties it to the request.
InitCurlHandle(c, i) ==
  easy' = [easy EXCEPT ![c].writedata = i, ![c].options = {}]

\* Mutant: the last easy handle is never used.
NextCurlHandleEarly ==
  IF next_curl_handle + 1 >= MAX_CONCURRENT_REQUESTS - 1 THEN 0 ELSE next_curl_handle + 1

\* The easy handles are used in turn.
NextCurlHandle ==
  IF next_curl_handle + 1 >= MAX_CONCURRENT_REQUESTS THEN 0 ELSE next_curl_handle + 1

Create ==
  LET i == Last(Listed) IN
  /\ pc = "idle"
  /\ Listed # <<>>
  /\ free_indices' = Front(Listed)
  /\ generation' = NextGeneration
  /\ requests' = [requests EXCEPT ![i] = [state |-> "PENDING", error |-> "NONE",
                                          data_length |-> 0, curl |-> next_curl_handle]]
  /\ next_curl_handle' = NextCurlHandle
  /\ InitCurlHandle(next_curl_handle, i)
  /\ handles' = handles \cup {[index |-> i, generation |-> NextGeneration]}
  /\ UNCHANGED <<responses, active_count, msgs, pc, starts, again, log>>

\* back() of an empty vector.
CreateUndefined ==
  /\ pc = "idle"
  /\ Listed = <<>>
  /\ generation' = NextGeneration
  /\ pc' = "undefined"
  /\ UNCHANGED <<requests, free_indices, responses, active_count, next_curl_handle,
                 easy, msgs, histVars>>

SetOption(h, option) ==
  /\ pc = "idle"
  /\ valid_handle(h)
  /\ easy' = [easy EXCEPT ![requests[h.index].curl].options = @ \cup {option}]
  /\ UNCHANGED <<poolVars, msgs, pc, histVars>>

-----------------------------------------------------------------------------
(* start and start_batch.                                                  *)

\* Mutant: only starts that libcurl refuses are counted.
StartsUncounted(hs) ==
  LET valid == {k \in 1 .. Len(hs) : valid_handle(hs[k])}
      added == {c \in {requests[hs[k].index].curl : k \in valid} : easy[c].phase = "idle"}
  IN
  /\ pc = "idle"
  /\ easy' = [c \in Indices |-> IF c \in added THEN [easy[c] EXCEPT !.phase = "running"]
                                               ELSE easy[c]]
  /\ starts' = [i \in Indices |-> starts[i] + Cardinality({k \in valid : hs[k].index = i})]
  /\ \A i \in Indices : starts'[i] <= MaxStarts
  /\ again' = again + Cardinality(valid) - Cardinality(added)
  /\ active_count' = active_count + Cardinality(valid) - Cardinality(added)
  /\ UNCHANGED <<requests, free_indices, responses, generation, next_curl_handle,
                 msgs, pc, handles, log>>

\* curl_multi_add_handle has no effect on a handle it has; active_count goes up
\* all the same.
Starts(hs) ==
  LET valid == {k \in 1 .. Len(hs) : valid_handle(hs[k])}
      curls == {requests[hs[k].index].curl : k \in valid}
      added == {c \in curls : easy[c].phase = "idle"}
  IN
  /\ pc = "idle"
  /\ easy' = [c \in Indices |-> IF c \in added THEN [easy[c] EXCEPT !.phase = "running"]
                                               ELSE easy[c]]
  /\ active_count' = active_count + Cardinality(valid)
  /\ starts' = [i \in Indices |-> starts[i] + Cardinality({k \in valid : hs[k].index = i})]
  /\ \A i \in Indices : starts'[i] <= MaxStarts
  /\ again' = again + Cardinality(valid) - Cardinality(added)
  /\ UNCHANGED <<requests, free_indices, responses, generation, next_curl_handle,
                 msgs, pc, handles, log>>

Start(h) == Starts(<<h>>)

StartBatch(hs) == Starts(hs)

-----------------------------------------------------------------------------
(* update and update_batch.                                                *)

Update ==
  /\ pc = "idle"
  /\ pc' = "perform"
  /\ UNCHANGED <<poolVars, easy, msgs, histVars>>

\* Mutant: update is called only while all handles are PENDING.
UpdateBatchAll(hs) ==
  /\ hs # {}
  /\ \A h \in hs : get_state(h) = "PENDING"
  /\ Update

\* update is called only if some handle is PENDING.
UpdateBatch(hs) ==
  /\ \E h \in hs : get_state(h) = "PENDING"
  /\ Update

\* Mutant: the chunk is added at the end.
WriteCbAppends(c) ==
  LET i     == easy[c].writedata
      chunk == [req |-> i, n |-> requests[i].data_length + 1]
  IN
  /\ pc = "perform"
  /\ easy[c].phase = "running"
  /\ Len(log) < MaxChunks
  /\ responses' = Append(responses, chunk)
  /\ requests' = [requests EXCEPT ![i].data_length = @ + 1]
  /\ log' = Append(log, chunk)
  /\ UNCHANGED <<free_indices, generation, active_count, next_curl_handle, easy, msgs, pc,
                 handles, starts, again>>

\* Mutant: the size is counted twice.
WriteCbTwice(c) ==
  LET i     == easy[c].writedata
      chunk == [req |-> i, n |-> requests[i].data_length + 1]
  IN
  /\ pc = "perform"
  /\ easy[c].phase = "running"
  /\ responses = <<>>
  /\ responses' = <<chunk>>
  /\ requests' = [requests EXCEPT ![i].data_length = @ + 2]
  /\ log' = Append(log, chunk)
  /\ UNCHANGED <<free_indices, generation, active_count, next_curl_handle, easy, msgs, pc,
                 handles, starts, again>>

\* write_cb inserts at data_offset + data_length of the one vector.
WriteCb(c) ==
  LET i     == easy[c].writedata
      chunk == [req |-> i, n |-> requests[i].data_length + 1]
  IN
  /\ pc = "perform"
  /\ easy[c].phase = "running"
  /\ Len(log) < MaxChunks
  /\ responses' = InsertAt(responses, requests[i].data_length + 1, chunk)
  /\ requests' = [requests EXCEPT ![i].data_length = @ + 1]
  /\ log' = Append(log, chunk)
  /\ UNCHANGED <<free_indices, generation, active_count, next_curl_handle, easy, msgs, pc,
                 handles, starts, again>>

\* libcurl: a transfer ends, if only by REQUEST_TIMEOUT_MS.
TransferEnds(c) ==
  /\ pc = "perform"
  /\ easy[c].phase = "running"
  /\ \E code \in Codes :
       easy' = [easy EXCEPT ![c].phase = "done", ![c].result = code]
  /\ msgs' = Append(msgs, c)
  /\ UNCHANGED <<poolVars, pc, histVars>>

PerformReturns ==
  /\ pc = "perform"
  /\ pc' = "read"
  /\ UNCHANGED <<poolVars, easy, msgs, histVars>>

curl_to_error(code) ==
  CASE code = "CURLE_OK"                   -> "NONE"
    [] code = "CURLE_URL_MALFORMAT"        -> "INVALID_URL"
    [] code = "CURLE_COULDNT_CONNECT"      -> "CONNECTION_FAILED"
    [] code = "CURLE_OPERATION_TIMEDOUT"   -> "TIMEOUT"
    [] code = "CURLE_OUT_OF_MEMORY"        -> "OUT_OF_MEMORY"
    [] code = "CURLE_SSL_CONNECT_ERROR"    -> "SSL_ERROR"
    [] code = "CURLE_COULDNT_RESOLVE_HOST" -> "NETWORK_ERROR"
    [] OTHER                               -> "INTERNAL_ERROR"

\* Mutant: the error is not recorded.
OutcomeNoError(req, code) ==
  [req EXCEPT !.state = IF code = "CURLE_OK" THEN "COMPLETE" ELSE "ERROR"]

\* The request after a transfer ended with code: the error of an earlier transfer
\* stays when this one succeeds.
Outcome(req, code) ==
  IF code = "CURLE_OK" THEN [req EXCEPT !.state = "COMPLETE"]
  ELSE [req EXCEPT !.state = "ERROR", !.error = curl_to_error(code)]

\* The first request that has the handle gets the result.
ReadMessage ==
  LET c     == Head(msgs)
      owner == {i \in Indices : requests[i].curl = c}
      first == {i \in owner : \A j \in owner : i <= j}
  IN
  /\ pc = "read"
  /\ msgs # <<>>
  /\ msgs' = Tail(msgs)
  /\ requests' = [i \in Indices |-> IF i \in first THEN Outcome(requests[i], easy[c].result)
                                                   ELSE requests[i]]
  /\ easy' = IF owner = {} THEN easy ELSE [easy EXCEPT ![c].phase = "idle"]
  /\ active_count' = active_count - Cardinality(first)
  /\ UNCHANGED <<free_indices, responses, generation, next_curl_handle, pc, histVars>>

UpdateReturns ==
  /\ pc = "read"
  /\ msgs = <<>>
  /\ pc' = "idle"
  /\ UNCHANGED <<poolVars, easy, msgs, histVars>>

\* The destructor cleans up every easy handle, in a transfer or not.
Destroy ==
  /\ pc = "idle"
  /\ pc' = "destroyed"
  /\ easy' = [c \in Indices |-> [easy[c] EXCEPT !.phase = "idle"]]
  /\ UNCHANGED <<poolVars, msgs, histVars>>

Finished ==
  /\ pc \in Ended
  /\ UNCHANGED vars

-----------------------------------------------------------------------------
HandleLists == {<<h, k>> : h, k \in handles}

Next ==
  \/ Create
  \/ CreateUndefined
  \/ \E h \in handles : Start(h) \/ \E option \in {"headers", "post"} : SetOption(h, option)
  \/ \E hs \in HandleLists : StartBatch(hs)
  \/ Update
  \/ UpdateBatch(handles)
  \/ \E c \in Indices : WriteCb(c) \/ TransferEnds(c)
  \/ PerformReturns
  \/ ReadMessage
  \/ UpdateReturns
  \/ Destroy
  \/ Finished

Spec == Init /\ [][Next]_vars

\* The user keeps calling update_batch with all handles; calls return; libcurl ends
\* every transfer that is performed again and again (REQUEST_TIMEOUT_MS).
FairSpec ==
  /\ Spec
  /\ WF_vars(UpdateBatch(handles))
  /\ WF_vars(PerformReturns)
  /\ WF_vars(ReadMessage \/ UpdateReturns)
  /\ \A c \in Indices : SF_vars(TransferEnds(c))
-----------------------------------------------------------------------------
(* Properties.                                                             *)

Created(i) == requests[i].state # "FREE"

\* Data and results find their request: the handle of a request hands its data to
\* that request and to no other, so no two requests share one (https.cpp:49-53, 101-103).
OwnersMatch ==
  \A i \in Indices : Created(i) =>
    requests[i].curl # NULL /\ easy[requests[i].curl].writedata = i

\* The shared vector holds each chunk once, and every span get_response returns
\* lies in it, as does every place write_cb inserts at (https.cpp:142-145, 204-209).
ResponsesAccounted ==
  \A i \in Indices :
    /\ requests[i].data_length <= Len(responses)
    /\ Cardinality({k \in 1 .. Len(responses) : responses[k].req = i}) = requests[i].data_length
    /\ \A n \in 1 .. requests[i].data_length :
         \E k \in 1 .. Len(responses) : responses[k] = [req |-> i, n |-> n]

\* No request was delivered data after another one had begun to be.
OneAfterTheOther ==
  \A j, k \in 1 .. Len(log) : j < k /\ log[j].req = log[k].req =>
     \A m \in j .. k : log[m].req = log[j].req

\* While transfers deliver one after the other, the latest one's response is its
\* own data in order (all requests write to the front of the same vector).
LatestIntact ==
  OneAfterTheOther /\ log # <<>> =>
    LET i == Last(log).req IN
    \A h \in handles : h.index = i /\ valid_handle(h) =>
      get_response(h) = [n \in 1 .. requests[i].data_length |-> [req |-> i, n |-> n]]

\* What get_state and get_error say is the result of the request's own transfer;
\* an error beside COMPLETE is left from an earlier run of the same request.
OutcomeIsOwn ==
  \A i \in Indices :
    /\ Created(i)
    /\ requests[i].state # "PENDING"
    /\ easy[requests[i].curl].phase # "done"
    => LET result == easy[requests[i].curl].result IN
       /\ requests[i].state = "COMPLETE" <=> result = "CURLE_OK"
       /\ requests[i].state = "ERROR" => requests[i].error = curl_to_error(result)
       /\ requests[i].state = "COMPLETE" /\ requests[i].error # "NONE" => starts[i] > 1

\* active_count is the number of transfers, plus one for each start of a request
\* that was in a transfer: it never falls below, but stays up for good.
ActiveCount ==
  pc # "destroyed" =>
    active_count = Cardinality({c \in Indices : easy[c].phase # "idle"}) + again

\* create is undefined only when every slot has been used, and a handle that was
\* returned is valid until then.
ExhaustedOnly ==
  /\ pc = "undefined" => \A i \in Indices : Created(i)
  /\ pc # "undefined" => \A h \in handles : valid_handle(h)
  /\ Cardinality(handles) = Cardinality({i \in Indices : Created(i)})

\* A request that is started leaves PENDING while its user keeps calling
\* update_batch (https.cpp:154-164).
StartedFinishes ==
  \A i \in Indices :
    (requests[i].state = "PENDING" /\ starts[i] > 0)
      ~> (requests[i].state # "PENDING" \/ pc \in Ended)
=============================================================================
