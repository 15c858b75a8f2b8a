------------------------- MODULE ServerRequestProofs -------------------------
(***************************************************************************)
(* A pipeline is performed only for whom its definition admits, with the   *)
(* payload it declares, and the answer, the log and the loggers tell what  *)
(* became of the request: proofs for any controllers, settings, uploads    *)
(* and results of the pipelines, by what interceptors, guards,             *)
(* authorization and filter do with them.                                  *)
(***************************************************************************)
EXTENDS RequestMeaning, FiniteSetTheorems, SequenceTheorems, TLAPS

Places == {"new", "authenticating", "performing", "answered"}

TypeOK ==
  /\ given \in [Requests -> [to : DOMAIN Controllers, upload : Uploads,
                            token : Tokens, config : Configs]]
  /\ at \in [Requests -> Places]
  /\ DOMAIN granted = Requests
  /\ DOMAIN payload = Requests
  /\ DOMAIN result = Requests
  /\ \A r \in Requests : DOMAIN result[r] = {"authentication", "pipeline"}

(* Nothing is performed before its authorization; whom it is waited for    *)
(* needs one.                                                              *)
Guarded(r) ==
  /\ at[r] \in {"new", "authenticating"} => payload[r] = <<>>
  /\ payload[r] # <<>> \/ at[r] = "performing" => Admitted(r)

(* The other requests stay as they are. *)
Only(r) ==
  /\ given' = given
  /\ \A q \in Requests : q # r => /\ at'[q] = at[q] /\ granted'[q] = granted[q]
                                  /\ payload'[q] = payload[q] /\ result'[q] = result[q]

LEMMA GuardedEverywhere ==
  ASSUME NEW r \in Requests, Only(r), Guarded(r)', \A q \in Requests : Guarded(q)
  PROVE  \A q \in Requests : Guarded(q)'
<1> TAKE q \in Requests
<1>1. CASE q # r
  <2>1. /\ given' = given /\ at'[q] = at[q] /\ granted'[q] = granted[q]
        /\ payload'[q] = payload[q] /\ result'[q] = result[q]
    BY <1>1 DEF Only
  <2>2. Admitted(q)' = Admitted(q)
    BY <2>1 DEF Admitted, Config, Def
  <2> QED
    BY <2>1, <2>2 DEF Guarded
<1> QED
  BY <1>1

(* An error is something else than none. *)
LEMMA ErrorsAreErrors ==
  ASSUME NEW kind, NEW status, NEW code, kind # "none"
  PROVE  Error(kind, status, code) # NoError
<1>1. Error(kind, status, code).kind = kind /\ NoError.kind = "none"
  BY DEF Error, NoError
<1> QED
  BY <1>1

(* What authorize lets pass is permitted by the declaration, with the      *)
(* roles it asked for (authorize, AuthGuardMetadata).                      *)
LEMMA AuthorizeIsRight ==
  ASSUME NEW r, NEW found \in Authentications, Refusal(r, found) = NoError
  PROVE  /\ found.is = "payload"
         /\ Permitted(Def(r).authorizations, found)
         /\ Authorize(Metadata(r), found.roles).roles = RolesFor(Def(r).authorizations, found)
<1> DEFINE asked == Def(r).authorizations
           needed == IF "anonymous" \in asked THEN {} ELSE asked \ {"authenticated"}
<1>1. found.is = "payload"
  <2>1. CASE found.is = "throws"
    <3>1. found.error = NoError
      BY <2>1 DEF Refusal
    <3>2. found.error.kind # "none"
      BY <2>1, AuthenticationsAssumption DEF IsThrown, ErrorKinds, OtherKinds
    <3> QED
      BY <3>1, <3>2 DEF NoError
  <2>2. CASE found.is = "null"
    <3>1. Error("error", 500, "none") = NoError
      BY <2>2 DEF Refusal
    <3> QED
      BY <3>1, ErrorsAreErrors
  <2> QED
    BY <2>1, <2>2, AuthenticationsAssumption
<1>2. /\ Metadata(r).permitAll = (asked = {})
      /\ Metadata(r).anonymous = ("anonymous" \in asked)
      /\ Metadata(r).fullyAuthenticated = (asked # {} /\ "anonymous" \notin asked)
      /\ Metadata(r).roles = needed
  BY DEF Metadata, AuthGuardMetadata
<1>3. /\ ~(Metadata(r).fullyAuthenticated /\ found.authentication = "none")
      /\ Authorize(Metadata(r), found.roles).authorized
  <2>1. /\ Error("http", 401, "none") # NoError
        /\ Error("http", 403, "none") # NoError
    BY ErrorsAreErrors
  <2> QED
    BY <1>1, <2>1 DEF Refusal
<1>4. CASE needed = {}
  <2>1. Authorize(Metadata(r), found.roles).roles = found.roles
    BY <1>2, <1>4 DEF Authorize
  <2>2. asked \subseteq {"authenticated"} \/ "anonymous" \in asked
    BY <1>4
  <2>3. Permitted(asked, found)
    BY <1>2, <1>3, <2>2 DEF Permitted
  <2> QED
    BY <1>1, <2>1, <2>2, <2>3 DEF RolesFor
<1>5. CASE needed # {}
  <2>1. "anonymous" \notin asked /\ asked # {} /\ ~(asked \subseteq {"authenticated"})
    BY <1>5
  <2>2. found.roles \intersect needed # {}
    BY <1>2, <1>3, <1>5, <2>1 DEF Authorize
  <2>3. Authorize(Metadata(r), found.roles).roles = found.roles \intersect needed
    BY <1>2, <1>5, <2>2 DEF Authorize
  <2>4. Permitted(asked, found)
    BY <1>2, <1>3, <2>1, <2>2 DEF Permitted
  <2>5. RolesFor(asked, found) = found.roles \intersect needed
    BY <2>1 DEF RolesFor
  <2> QED
    BY <1>1, <2>3, <2>4, <2>5
<1> QED
  BY <1>4, <1>5
-----------------------------------------------------------------------------
Keeps(r) == TypeOK' /\ Only(r) /\ Guarded(r)'

(* What performing the pipeline, or not finding it, does to the state. *)
LEMMA PerformPipelineEffect ==
  ASSUME TypeOK, NEW r \in Requests, NEW c, PerformPipeline(r, c)
  PROVE  /\ at' \in [Requests -> Places] /\ DOMAIN payload' = Requests
         /\ at'[r] \in {"performing", "answered"}
         /\ at'[r] = "answered" => payload' = payload
         /\ \A q \in Requests : q # r => at'[q] = at[q] /\ payload'[q] = payload[q]
<1>1. at \in [Requests -> Places] /\ DOMAIN payload = Requests
  BY DEF TypeOK
<1>2. CASE given[r].to \in Repository
  <2>1. PICK x : payload' = [payload EXCEPT ![r] = x]
    BY <1>2 DEF PerformPipeline
  <2>2. at' = [at EXCEPT ![r] = "performing"]
    BY <1>2 DEF PerformPipeline
  <2>3. DOMAIN payload' = Requests /\ \A q \in Requests : q # r => payload'[q] = payload[q]
    BY <1>1, <2>1
  <2> QED
    BY <1>1, <2>2, <2>3 DEF Places
<1>3. CASE given[r].to \notin Repository
  <2>1. at' = [at EXCEPT ![r] = "answered"] /\ payload' = payload
    BY <1>3 DEF PerformPipeline, Catch
  <2> QED
    BY <1>1, <2>1 DEF Places
<1> QED
  BY <1>2, <1>3

(* A request that is answered by an error. *)
LEMMA CatchEffect ==
  ASSUME TypeOK, NEW r \in Requests, NEW e, Catch(r, e)
  PROVE  /\ at' \in [Requests -> Places] /\ at'[r] = "answered"
         /\ \A q \in Requests : q # r => at'[q] = at[q]
  BY DEF TypeOK, Catch, Places

LEMMA InvokeKeeps ==
  ASSUME TypeOK, NEW r \in Requests, Guarded(r), Invoke(r)
  PROVE  Keeps(r)
<1>1. /\ payload[r] = <<>>
      /\ given' = given /\ granted' = granted /\ result' = result
  BY DEF Guarded, Invoke
<1>2. ASSUME NEW e, Catch(r, e), payload' = payload
      PROVE  Keeps(r)
  <2>1. TypeOK' /\ Only(r)
    BY <1>1, <1>2, CatchEffect DEF TypeOK, Only
  <2>2. Guarded(r)'
    BY <1>1, <1>2, CatchEffect DEF Guarded
  <2> QED
    BY <2>1, <2>2 DEF Keeps
<1>3. ASSUME ~Config(r).authEnabled, PerformPipeline(r, <<"request">>)
      PROVE  Keeps(r)
  <2>1. TypeOK' /\ Only(r)
    BY <1>1, <1>3, PerformPipelineEffect DEF TypeOK, Only
  <2>2. Admitted(r)'
    BY <1>1, <1>3 DEF Admitted, Config
  <2>3. at'[r] \in {"performing", "answered"}
    BY <1>3, PerformPipelineEffect
  <2> QED
    BY <2>1, <2>2, <2>3 DEF Keeps, Guarded
<1>4. ASSUME at' = [at EXCEPT ![r] = "authenticating"], payload' = payload
      PROVE  Keeps(r)
  <2>1. at'[r] = "authenticating" /\ at' \in [Requests -> Places]
    BY <1>4 DEF TypeOK, Places
  <2>2. TypeOK' /\ Only(r)
    BY <1>1, <1>4, <2>1 DEF TypeOK, Only
  <2> QED
    BY <1>1, <1>4, <2>1, <2>2 DEF Keeps, Guarded
<1> QED
  BY <1>2, <1>3, <1>4 DEF Invoke

LEMMA AuthenticatedKeeps ==
  ASSUME TypeOK, NEW r \in Requests, Guarded(r), Authenticated(r)
  PROVE  Keeps(r)
<1>1. PICK found \in Authentications :
        /\ result' = [result EXCEPT ![r].authentication = found]
        /\ IF Refusal(r, found) # NoError
             THEN /\ Catch(r, Refusal(r, found))
                  /\ UNCHANGED <<payload, granted>>
             ELSE /\ \E roles, headers :
                       /\ roles = Authorize(Metadata(r), found.roles).roles
                       /\ granted' = [granted EXCEPT ![r] =
                            [is |-> "granted", authentication |-> found.authentication,
                             roles |-> roles, headers |-> headers]]
                  /\ PerformPipeline(r, <<>>)
  BY DEF Authenticated
<1>2. payload[r] = <<>> /\ given' = given
  BY DEF Authenticated, Guarded
<1>3. /\ DOMAIN result' = Requests
      /\ \A q \in Requests : DOMAIN result'[q] = {"authentication", "pipeline"}
      /\ result'[r].authentication = found
      /\ \A q \in Requests : q # r => result'[q] = result[q]
  BY <1>1 DEF TypeOK
<1>4. CASE Refusal(r, found) # NoError
  <2>1. Catch(r, Refusal(r, found)) /\ payload' = payload /\ granted' = granted
    BY <1>1, <1>4
  <2>2. /\ at' \in [Requests -> Places] /\ at'[r] = "answered"
        /\ \A q \in Requests : q # r => at'[q] = at[q]
    BY <2>1, CatchEffect
  <2>3. TypeOK' /\ Only(r)
    BY <1>2, <1>3, <2>1, <2>2 DEF TypeOK, Only
  <2> QED
    BY <1>2, <2>1, <2>2, <2>3 DEF Keeps, Guarded
<1>5. CASE Refusal(r, found) = NoError
  <2>1. PICK roles, headers :
          /\ roles = Authorize(Metadata(r), found.roles).roles
          /\ granted' = [granted EXCEPT ![r] =
               [is |-> "granted", authentication |-> found.authentication,
                roles |-> roles, headers |-> headers]]
    BY <1>1, <1>5
  <2>2. PerformPipeline(r, <<>>)
    BY <1>1, <1>5
  <2>3. /\ DOMAIN granted' = Requests
        /\ granted'[r] = [is |-> "granted", authentication |-> found.authentication,
                          roles |-> roles, headers |-> headers]
        /\ \A q \in Requests : q # r => granted'[q] = granted[q]
    BY <2>1 DEF TypeOK
  <2>4. TypeOK' /\ Only(r)
    BY <1>2, <1>3, <2>2, <2>3, PerformPipelineEffect DEF TypeOK, Only
  <2>5. /\ found.is = "payload" /\ Permitted(Def(r).authorizations, found)
        /\ roles = RolesFor(Def(r).authorizations, found)
    BY <1>5, <2>1, AuthorizeIsRight
  <2>6. Admitted(r)'
    <3>1. Def(r)' = Def(r)
      BY <1>2 DEF Def
    <3>2. /\ granted'[r].is = "granted" /\ granted'[r].roles = roles
          /\ granted'[r].authentication = found.authentication
      BY <2>3
    <3> QED
      BY <1>3, <2>5, <3>1, <3>2 DEF Admitted
  <2>7. at'[r] \in {"performing", "answered"}
    BY <2>2, PerformPipelineEffect
  <2> QED
    BY <2>4, <2>6, <2>7 DEF Keeps, Guarded
<1> QED
  BY <1>4, <1>5

LEMMA PerformedKeeps ==
  ASSUME TypeOK, NEW r \in Requests, Guarded(r), Performed(r)
  PROVE  Keeps(r)
<1>1. PICK found \in Results :
        /\ result' = [result EXCEPT ![r].pipeline = found]
        /\ IF found.is = "throws" THEN PipelineThrows(r, found) ELSE PipelineReturns(r, found)
  BY DEF Performed
<1>2. at' = [at EXCEPT ![r] = "answered"]
  BY <1>1 DEF PipelineThrows, PipelineReturns, Catch
<1>3. /\ at[r] = "performing"
      /\ given' = given /\ granted' = granted /\ payload' = payload
  BY DEF Performed
<1>4. /\ DOMAIN result' = Requests
      /\ \A q \in Requests : DOMAIN result'[q] = {"authentication", "pipeline"}
      /\ result'[r].authentication = result[r].authentication
      /\ \A q \in Requests : q # r => result'[q] = result[q]
  BY <1>1 DEF TypeOK
<1>5. /\ at' \in [Requests -> Places] /\ at'[r] = "answered"
      /\ \A q \in Requests : q # r => at'[q] = at[q]
  BY <1>2 DEF TypeOK, Places
<1>6. TypeOK' /\ Only(r)
  BY <1>3, <1>4, <1>5 DEF TypeOK, Only
<1>7. Admitted(r)'
  BY <1>3, <1>4 DEF Guarded, Admitted, Config, Def
<1> QED
  BY <1>5, <1>6, <1>7 DEF Keeps, Guarded
-----------------------------------------------------------------------------
(* What is known of the answer.                                            *)

AnswersOK ==
  /\ DOMAIN answer = Requests /\ DOMAIN failure = Requests /\ DOMAIN hooks = Requests
  /\ \A r \in Requests : DOMAIN answer[r] = {"status", "body", "headers"}

FilesTaken(r) == Parsed(Def(r).files, given[r].upload) # Refused

(* Nothing has failed yet, and the pipeline has answered nothing; the      *)
(* loggers were called with what `calls` says.                             *)
Open(r, calls) ==
  /\ failure[r] = NoError /\ result[r].pipeline.is = "none"
  /\ Config(r).aspect => hooks[r] = calls

(* What has been told of a request, by its place. *)
Told(r) ==
  /\ at[r] \in {"new", "authenticating"} =>
       payload[r] = <<>> /\ result[r].authentication.is = "none"
  /\ at[r] = "new" => Open(r, <<>>)
  /\ at[r] \in {"authenticating", "performing"} => FilesTaken(r) /\ Open(r, <<"request">>)
  /\ at[r] = "performing" => Len(payload[r]) = 1 /\ result[r].authentication.is # "throws"
  /\ at[r] = "answered" => /\ TellsOfSuccess(r) /\ TellsOfFailure(r) /\ TellsTheLoggers(r)
                           /\ RefusedForItsFiles(r) <=> ~FilesTaken(r)

OnlyItsAnswer(r) ==
  \A q \in Requests : q # r => /\ answer'[q] = answer[q] /\ failure'[q] = failure[q]
                               /\ hooks'[q] = hooks[q]

LEMMA ToldEverywhere ==
  ASSUME NEW r \in Requests, Only(r), OnlyItsAnswer(r), Told(r)', \A q \in Requests : Told(q)
  PROVE  \A q \in Requests : Told(q)'
<1> TAKE q \in Requests
<1>1. CASE q # r
  <2>1. /\ given' = given /\ at'[q] = at[q] /\ granted'[q] = granted[q]
        /\ payload'[q] = payload[q] /\ result'[q] = result[q]
        /\ answer'[q] = answer[q] /\ failure'[q] = failure[q] /\ hooks'[q] = hooks[q]
    BY <1>1 DEF Only, OnlyItsAnswer
  <2>2. /\ Config(q)' = Config(q) /\ Def(q)' = Def(q) /\ HeadersOf(q)' = HeadersOf(q)
    BY <2>1 DEF Config, Def, HeadersOf
  <2>3. FilesTaken(q)' <=> FilesTaken(q)
    BY <2>1, <2>2 DEF FilesTaken
  <2>4. TellsOfSuccess(q) => TellsOfSuccess(q)'
    BY <2>1, <2>2 DEF TellsOfSuccess
  <2>5. TellsOfFailure(q) => TellsOfFailure(q)'
    BY <2>1 DEF TellsOfFailure, Entries, AnsweredAs
  <2>6. TellsTheLoggers(q) => TellsTheLoggers(q)'
    BY <2>1, <2>2, <2>3 DEF TellsTheLoggers, FilesTaken
  <2>7. \A calls : Open(q, calls) => Open(q, calls)'
    BY <2>1, <2>2 DEF Open
  <2>8. RefusedForItsFiles(q)' <=> RefusedForItsFiles(q)
    BY <2>1 DEF RefusedForItsFiles
  <2> QED
    BY <2>1, <2>3, <2>4, <2>5, <2>6, <2>7, <2>8 DEF Told
<1> QED
  BY <1>1

(* What is caught: something nobody has logged, an error that was logged   *)
(* and marked, or the TypeError of a marking that failed.                  *)
IsCaught(e) ==
  /\ DOMAIN e = {"kind", "status", "code", "printed", "logs"}
  /\ e.kind \in ErrorKinds \union OtherKinds
  /\ e.printed \in BOOLEAN /\ e.logs \in {0, 1}

(* The entries it has in the log when the filter is done with it.          *)
LogsOf(e) == IF e.kind \in OtherKinds \/ e.printed THEN e.logs ELSE e.logs + 1

(* What is caught stands for what was thrown.                              *)
StandsIn(e, thrown) ==
  /\ thrown.kind \in ErrorKinds => IsTheError(e, thrown)
  /\ StatusOf(e) = StatusOf(thrown) /\ BodyOf(e) = BodyOf(thrown)

LEMMA ErrorIsCaught ==
  ASSUME NEW kind \in ErrorKinds, NEW status, NEW code
  PROVE  /\ IsThrown(Error(kind, status, code)) /\ IsCaught(Error(kind, status, code))
         /\ LogsOf(Error(kind, status, code)) = 1
  BY DEF IsThrown, IsCaught, LogsOf, Error, ErrorKinds, OtherKinds

(* handleException: an error is logged and marked; a text is logged, and   *)
(* the TypeError in its place will be; null only as a TypeError.           *)
LEMMA HandledIsCaught ==
  ASSUME NEW e, IsThrown(e)
  PROVE  /\ IsCaught(e) /\ IsCaught(HandleException(e)) /\ StandsIn(HandleException(e), e)
         /\ LogsOf(e) = IF e.kind \in OtherKinds THEN 0 ELSE 1
         /\ LogsOf(HandleException(e)) = IF e.kind = "text" THEN 2 ELSE 1
<1>1. PICK h : h = HandleException(e)
  OBVIOUS
<1>2. IsCaught(e) /\ LogsOf(e) = IF e.kind \in OtherKinds THEN 0 ELSE 1
  <2>1. /\ DOMAIN e = {"kind", "status", "code", "printed", "logs"}
        /\ e.kind \in ErrorKinds \union OtherKinds
        /\ e.printed = FALSE /\ e.logs = 0
    BY DEF IsThrown
  <2>2. IsCaught(e)
    BY <2>1 DEF IsCaught
  <2>3. LogsOf(e) = IF e.kind \in OtherKinds THEN 0 ELSE 1
    BY <2>1 DEF LogsOf
  <2> QED
    BY <2>2, <2>3
<1>3. CASE e.kind \in {"text", "nothing"}
  <2>1. /\ DOMAIN h = {"kind", "status", "code", "printed", "logs"}
        /\ h.kind = "error" /\ h.printed = FALSE
        /\ h.logs = IF e.kind = "text" THEN 1 ELSE 0
    BY <1>1, <1>3 DEF HandleException, Error
  <2>2. h.kind \in ErrorKinds /\ h.kind \notin OtherKinds
    BY <2>1 DEF ErrorKinds, OtherKinds
  <2>3. IsCaught(h)
    BY <2>1, <2>2 DEF IsCaught
  <2>4. LogsOf(h) = IF e.kind = "text" THEN 2 ELSE 1
    BY <2>1, <2>2 DEF LogsOf
  <2>5. StandsIn(h, e)
    BY <1>3, <2>1 DEF StandsIn, StatusOf, BodyOf, ErrorKinds
  <2>6. e.kind \in OtherKinds
    BY <1>3 DEF OtherKinds
  <2> QED
    BY <1>1, <1>2, <2>3, <2>4, <2>5, <2>6
<1>4. CASE e.kind \notin {"text", "nothing"}
  <2>1. h = [e EXCEPT !.logs = e.logs + 1, !.printed = TRUE]
    BY <1>1, <1>4 DEF HandleException
  <2>2. /\ DOMAIN h = DOMAIN e /\ h.kind = e.kind /\ h.status = e.status /\ h.code = e.code
        /\ h.printed = TRUE /\ h.logs = 1
    BY <2>1 DEF IsThrown
  <2>3. IsCaught(h) /\ LogsOf(h) = 1
    BY <2>2 DEF IsCaught, IsThrown, LogsOf
  <2>4. StandsIn(h, e)
    BY <2>2 DEF StandsIn, IsTheError, StatusOf, BodyOf
  <2> QED
    BY <1>1, <1>2, <1>4, <2>3, <2>4
<1> QED
  BY <1>3, <1>4

(* The filter: what is caught is logged unless it was or is no Error, and  *)
(* told by its status and code.                                            *)
LEMMA CatchTells ==
  ASSUME AnswersOK, NEW r \in Requests, NEW e, IsCaught(e), Catch(r, e)
  PROVE  /\ DOMAIN answer' = Requests /\ DOMAIN failure' = Requests
         /\ \A q \in Requests : DOMAIN answer'[q] = {"status", "body", "headers"}
         /\ \A q \in Requests : q # r => answer'[q] = answer[q] /\ failure'[q] = failure[q]
         /\ IsTheError(failure'[r], e) /\ failure'[r] # NoError
         /\ failure'[r].logs = LogsOf(e)
         /\ answer'[r].status = StatusOf(e) /\ answer'[r].body = BodyOf(e)
<1> DEFINE f == IF e.kind \in OtherKinds THEN e
                ELSE [e EXCEPT !.logs = IF e.printed THEN @ ELSE @ + 1, !.printed = FALSE]
<1>1. PICK g : g = f
  OBVIOUS
<1>2. /\ DOMAIN g = DOMAIN e /\ g.kind = e.kind /\ g.status = e.status /\ g.code = e.code
      /\ g.logs = LogsOf(e)
  BY <1>1 DEF IsCaught, LogsOf
<1>3. failure' = [failure EXCEPT ![r] = g]
  BY <1>1 DEF Catch
<1>4. /\ DOMAIN failure' = Requests /\ failure'[r] = g
      /\ \A q \in Requests : q # r => failure'[q] = failure[q]
  BY <1>3 DEF AnswersOK
<1>5. g # NoError
  BY <1>2 DEF NoError, IsCaught, ErrorKinds, OtherKinds
<1>6. /\ DOMAIN answer' = Requests
      /\ \A q \in Requests : DOMAIN answer'[q] = {"status", "body", "headers"}
      /\ \A q \in Requests : q # r => answer'[q] = answer[q]
      /\ answer'[r].status = StatusOf(e) /\ answer'[r].body = BodyOf(e)
  BY DEF AnswersOK, Catch
<1> QED
  BY <1>2, <1>4, <1>5, <1>6 DEF IsTheError

LEMMA CallsJoined ==
  /\ \A x, y : <<x>> \o <<y>> = <<x, y>> /\ Append(<<x>>, y) = <<x, y>>
  /\ \A x, y : <<>> \o <<x, y>> = <<x, y>>
  /\ \A x : <<x>> \o <<>> = <<x>> /\ <<>> \o <<x>> = <<x>> /\ Append(<<>>, x) = <<x>>
<1> SUFFICES ASSUME NEW x, NEW y
             PROVE  /\ <<x>> \o <<y>> = <<x, y>> /\ Append(<<x>>, y) = <<x, y>>
                    /\ <<>> \o <<x, y>> = <<x, y>> /\ <<>> \o <<x>> = <<x>>
                    /\ <<x>> \o <<>> = <<x>> /\ Append(<<>>, x) = <<x>>
  OBVIOUS
<1>1. PICK S : S = {x, y}
  OBVIOUS
<1>2. /\ <<x>> \in Seq(S) /\ <<x, y>> \in Seq(S) /\ <<>> \in Seq(S) /\ <<y>> \in Seq(S)
      /\ x \in S /\ y \in S
  BY <1>1
<1>3. /\ <<>> \o <<x, y>> = <<x, y>> /\ <<>> \o <<x>> = <<x>> /\ <<x>> \o <<>> = <<x>>
  BY <1>2, ConcatEmptySeq
<1>4. Append(<<x>>, y) = <<x>> \o <<y>> /\ Append(<<>>, x) = <<>> \o <<x>>
  BY <1>2, AppendIsConcat
<1>5. Append(<<x>>, y) = <<x, y>>
  <2>1. PICK s, t : s = <<x>> /\ t = Append(s, y)
    OBVIOUS
  <2>2. s \in Seq(S) /\ Len(s) = 1 /\ s[1] = x
    BY <1>2, <2>1
  <2>3. t \in Seq(S) /\ Len(t) = 2 /\ t[1] = x /\ t[2] = y
    BY <1>2, <2>1, <2>2, AppendProperties
  <2>4. PICK u : u = <<x, y>>
    OBVIOUS
  <2>5. u \in Seq(S) /\ Len(u) = 2 /\ u[1] = x /\ u[2] = y
    BY <1>2, <2>4
  <2>6. t = u
    BY <2>3, <2>5, SeqEqual
  <2> QED
    BY <2>1, <2>4, <2>6
<1> QED
  BY <1>3, <1>4, <1>5

LEMMA HookedTells ==
  ASSUME AnswersOK, NEW r \in Requests, NEW calls, Hooked(r, calls)
  PROVE  /\ DOMAIN hooks' = Requests
         /\ \A q \in Requests : q # r => hooks'[q] = hooks[q]
         /\ Config(r).aspect => hooks'[r] = hooks[r] \o calls
  BY DEF AnswersOK, Hooked

Tells(r) == AnswersOK' /\ OnlyItsAnswer(r) /\ Told(r)'

(* A request that fails, when its loggers have been called and its pipeline *)
(* has not returned but headers that are no texts.                         *)
LEMMA FailureIsTold ==
  ASSUME TypeOK, AnswersOK, NEW r \in Requests, NEW e, IsCaught(e), Catch(r, e), given' = given,
         Len(payload'[r]) = IF result'[r].pipeline.is = "none" THEN 0 ELSE 1,
         \/ result'[r].pipeline.is \in {"none", "throws"}
         \/ \E h \in HeadersOf(r)' : h.value = "number",
         \A found \in {result'[r].authentication, result'[r].pipeline} :
           found.is = "throws" => StandsIn(e, found.error),
         LogsOf(e) = Entries(r)',
         ~FilesTaken(r) <=> /\ StatusOf(e) = 400
                            /\ result'[r].authentication.is = "none"
                            /\ result'[r].pipeline.is = "none",
         DOMAIN hooks' = Requests,
         \A q \in Requests : q # r => hooks'[q] = hooks[q],
         Config(r).aspect /\ FilesTaken(r) => hooks'[r] = <<"request", "failure">>
  PROVE  Tells(r)
<1>1. /\ DOMAIN answer' = Requests /\ DOMAIN failure' = Requests
      /\ \A q \in Requests : DOMAIN answer'[q] = {"status", "body", "headers"}
      /\ \A q \in Requests : q # r => answer'[q] = answer[q] /\ failure'[q] = failure[q]
      /\ IsTheError(failure'[r], e) /\ failure'[r] # NoError
      /\ failure'[r].logs = LogsOf(e)
      /\ answer'[r].status = StatusOf(e) /\ answer'[r].body = BodyOf(e)
  BY CatchTells
<1>2. at'[r] = "answered"
  BY CatchEffect
<1>3. NoError' = NoError /\ (FilesTaken(r)' <=> FilesTaken(r)) /\ Config(r)' = Config(r)
  BY DEF NoError, FilesTaken, Def, Config
<1>4. TellsOfSuccess(r)'
  BY <1>1, <1>3 DEF TellsOfSuccess
<1>5. ASSUME NEW x, StatusOf(x) = StatusOf(e), BodyOf(x) = BodyOf(e)
      PROVE  /\ answer'[r].status = IF x.kind \in {"http", "exposed"} THEN x.status ELSE 500
             /\ answer'[r].body = IF x.kind \in ErrorKinds \ {"error"} /\ x.code # "none"
                                    THEN x.code ELSE "ERR_UNKNOWN"
  BY <1>1, <1>5 DEF StatusOf, BodyOf, ErrorKinds
<1>6. TellsOfFailure(r)'
  <2>1. ASSUME NEW found \in {result'[r].authentication, result'[r].pipeline},
               found.is = "throws"
        PROVE  /\ found.error.kind \in ErrorKinds => IsTheError(failure'[r], found.error)
               /\ answer'[r].status = IF found.error.kind \in {"http", "exposed"}
                                        THEN found.error.status ELSE 500
               /\ answer'[r].body = IF found.error.kind \in ErrorKinds \ {"error"}
                                       /\ found.error.code # "none"
                                      THEN found.error.code ELSE "ERR_UNKNOWN"
    BY <1>1, <1>5, <2>1 DEF StandsIn, IsTheError
  <2>2. StatusOf(failure'[r]) = StatusOf(e) /\ BodyOf(failure'[r]) = BodyOf(e)
    BY <1>1 DEF IsTheError, StatusOf, BodyOf
  <2>3. AnsweredAs(r, failure[r])'
    BY <1>5, <2>2 DEF AnsweredAs
  <2> QED
    BY <1>1, <1>3, <2>1, <2>3 DEF TellsOfFailure, AnsweredAs
<1>7. TellsTheLoggers(r)'
  BY <1>1, <1>3 DEF TellsTheLoggers, FilesTaken
<1>8. AnswersOK' /\ OnlyItsAnswer(r)
  BY <1>1 DEF AnswersOK, OnlyItsAnswer
<1>9. (RefusedForItsFiles(r) <=> ~FilesTaken(r))'
  BY <1>1, <1>2, <1>3 DEF RefusedForItsFiles
<1> QED
  BY <1>2, <1>4, <1>6, <1>7, <1>8, <1>9 DEF Tells, Told

(* A request that goes on: its loggers have been called with the request.  *)
LEMMA GoingOnIsTold ==
  ASSUME TypeOK, AnswersOK, NEW r \in Requests, given' = given,
         UNCHANGED <<answer, failure>>, failure[r] = NoError,
         result'[r].pipeline.is = "none", FilesTaken(r),
         NEW calls, Hooked(r, calls), Config(r).aspect => hooks[r] \o calls = <<"request">>,
         \/ /\ at'[r] = "authenticating" /\ payload'[r] = <<>>
            /\ result'[r].authentication.is = "none"
         \/ /\ at'[r] = "performing" /\ Len(payload'[r]) = 1
            /\ result'[r].authentication.is # "throws"
  PROVE  Tells(r)
<1>1. /\ DOMAIN hooks' = Requests
      /\ \A q \in Requests : q # r => hooks'[q] = hooks[q]
      /\ Config(r).aspect => hooks'[r] = <<"request">>
  BY HookedTells
<1>2. AnswersOK' /\ OnlyItsAnswer(r)
  BY <1>1 DEF AnswersOK, OnlyItsAnswer
<1>3. FilesTaken(r)' /\ Config(r)' = Config(r)
  BY DEF FilesTaken, Def, Config
<1>4. Open(r, <<"request">>)'
  BY <1>1, <1>3 DEF Open, NoError
<1> QED
  BY <1>2, <1>3, <1>4 DEF Tells, Told

LEMMA NotFoundIsCaught ==
  /\ IsCaught(NotFound) /\ LogsOf(NotFound) = 1 /\ StatusOf(NotFound) = 500
  /\ IsCaught(TypeError) /\ LogsOf(TypeError) = 1
<1>1. PICK e, f : /\ e = Error("uncatchable", 500, "ERR_PIPELINE_NOT_FOUND")
                  /\ f = Error("error", 500, "none")
  OBVIOUS
<1>2. IsThrown(e) /\ IsThrown(f)
  BY <1>1, ErrorIsCaught DEF ErrorKinds
<1>3. e.kind = "uncatchable" /\ f.kind = "error"
  BY <1>1 DEF Error
<1>4. NotFound = HandleException(e) /\ TypeError = HandleException(f)
  BY <1>1 DEF NotFound, TypeError
<1>5. StatusOf(NotFound) = 500
  BY <1>2, <1>3, <1>4, HandledIsCaught DEF StandsIn, StatusOf
<1> QED
  BY <1>2, <1>3, <1>4, <1>5, HandledIsCaught

LEMMA PerformPipelineTells ==
  ASSUME TypeOK, AnswersOK, NEW r \in Requests, NEW calls, PerformPipeline(r, calls),
         given' = given, payload[r] = <<>>, failure[r] = NoError, FilesTaken(r),
         result'[r].pipeline.is = "none", result'[r].authentication.is # "throws",
         Config(r).aspect => /\ hooks[r] \o calls = <<"request">>
                             /\ hooks[r] \o Append(calls, "failure") = <<"request", "failure">>
  PROVE  Tells(r)
<1>1. CASE given[r].to \in Repository
  <2>1. PICK made : payload' = [payload EXCEPT ![r] = Append(payload[r], made)]
    BY <1>1 DEF PerformPipeline
  <2>2. Len(payload'[r]) = 1
    <3>1. payload'[r] = Append(<<>>, made)
      BY <2>1 DEF TypeOK
    <3>2. Append(<<>>, made) = <<made>> /\ Len(<<made>>) = 1
      OBVIOUS
    <3> QED
      BY <3>1, <3>2
  <2>3. at'[r] = "performing" /\ Hooked(r, calls) /\ UNCHANGED <<answer, failure>>
    BY <1>1 DEF PerformPipeline, TypeOK
  <2> QED
    BY <2>2, <2>3, GoingOnIsTold
<1>2. CASE given[r].to \notin Repository
  <2>1. PICK all : all = Append(calls, "failure")
    OBVIOUS
  <2>2. Catch(r, NotFound) /\ Hooked(r, all) /\ payload' = payload
    BY <1>2, <2>1 DEF PerformPipeline
  <2>3. /\ DOMAIN hooks' = Requests
        /\ \A q \in Requests : q # r => hooks'[q] = hooks[q]
        /\ Config(r).aspect => hooks'[r] = <<"request", "failure">>
    BY <2>1, <2>2, HookedTells
  <2>4. Len(payload'[r]) = 0
    BY <2>2
  <2>5. PICK e : e = NotFound
    OBVIOUS
  <2>6. Entries(r)' = 1
    BY DEF Entries
  <2>7. IsCaught(e) /\ LogsOf(e) = 1 /\ StatusOf(e) # 400
    BY <2>5, NotFoundIsCaught
  <2> QED
    BY <2>2, <2>3, <2>4, <2>5, <2>6, <2>7, FailureIsTold
<1> QED
  BY <1>1, <1>2

LEMMA InvokeTells ==
  ASSUME TypeOK, AnswersOK, NEW r \in Requests, Told(r), Invoke(r)
  PROVE  Tells(r)
<1>1. /\ at[r] = "new" /\ payload[r] = <<>> /\ failure[r] = NoError
      /\ result[r].authentication.is = "none" /\ result[r].pipeline.is = "none"
      /\ Config(r).aspect => hooks[r] = <<>>
  BY DEF Invoke, Told, Open
<1>2. given' = given /\ granted' = granted /\ result' = result
  BY DEF Invoke
<1>3. /\ <<>> \o <<"request">> = <<"request">>
      /\ <<>> \o <<"request", "failure">> = <<"request", "failure">>
      /\ Append(<<"request">>, "failure") = <<"request", "failure">>
  BY CallsJoined
<1>4. ASSUME NEW e, IsCaught(e), Catch(r, e), payload' = payload, DOMAIN hooks' = Requests,
             \A q \in Requests : q # r => hooks'[q] = hooks[q],
             Config(r).aspect /\ FilesTaken(r) => hooks'[r] = <<"request", "failure">>,
             LogsOf(e) = 1, ~FilesTaken(r) <=> StatusOf(e) = 400
      PROVE  Tells(r)
  <2>1. Len(payload'[r]) = 0
    BY <1>1, <1>4
  <2>2. /\ result'[r].authentication.is = "none" /\ result'[r].pipeline.is = "none"
        /\ Entries(r)' = 1
    BY <1>1, <1>2 DEF Entries
  <2> QED
    BY <1>1, <1>2, <1>4, <2>1, <2>2, FailureIsTold
<1>5. CASE ~FilesTaken(r)
  <2>1. PICK e : e = Error("http", 400, "none")
    OBVIOUS
  <2>2. Catch(r, e) /\ payload' = payload /\ hooks' = hooks
    BY <1>5, <2>1 DEF Invoke, FilesTaken
  <2>3. IsCaught(e) /\ LogsOf(e) = 1 /\ StatusOf(e) = 400
    BY <2>1, ErrorIsCaught DEF ErrorKinds, StatusOf, Error
  <2> QED
    BY <1>4, <1>5, <2>2, <2>3 DEF AnswersOK
<1>6. CASE FilesTaken(r) /\ ~Config(r).authEnabled
  <2>1. PerformPipeline(r, <<"request">>)
    BY <1>6 DEF Invoke, FilesTaken
  <2> QED
    BY <1>1, <1>2, <1>3, <1>6, <2>1, PerformPipelineTells
<1>7. CASE FilesTaken(r) /\ Config(r).authEnabled /\ Config(r).authPipeline \in Repository
  <2>1. /\ at' = [at EXCEPT ![r] = "authenticating"] /\ Hooked(r, <<"request">>)
        /\ UNCHANGED <<payload, answer, failure>>
    BY <1>7 DEF Invoke, FilesTaken
  <2>2. at'[r] = "authenticating"
    BY <2>1 DEF TypeOK
  <2> QED
    BY <1>1, <1>2, <1>3, <1>7, <2>1, <2>2, GoingOnIsTold
<1>8. CASE FilesTaken(r) /\ Config(r).authEnabled /\ Config(r).authPipeline \notin Repository
  <2>1. PICK e : e = NotFound
    OBVIOUS
  <2>2. Catch(r, e) /\ Hooked(r, <<"request", "failure">>) /\ payload' = payload
    BY <1>8, <2>1 DEF Invoke, FilesTaken
  <2>3. IsCaught(e) /\ LogsOf(e) = 1 /\ StatusOf(e) # 400
    BY <2>1, NotFoundIsCaught
  <2>4. /\ DOMAIN hooks' = Requests
        /\ \A q \in Requests : q # r => hooks'[q] = hooks[q]
        /\ Config(r).aspect => hooks'[r] = <<"request", "failure">>
    BY <1>1, <1>3, <2>2, HookedTells
  <2> QED
    BY <1>4, <1>8, <2>2, <2>3, <2>4
<1> QED
  BY <1>5, <1>6, <1>7, <1>8

(* What the authentication pipeline throws is the refusal, and logged if   *)
(* it is an Error; the other refusals are Errors.                          *)
LEMMA RefusalIsCaught ==
  ASSUME NEW r, NEW found \in Authentications, Refusal(r, found) # NoError
  PROVE  /\ IsCaught(Refusal(r, found))
         /\ found.is = "throws" => StandsIn(Refusal(r, found), found.error)
         /\ LogsOf(Refusal(r, found)) =
              IF found.is = "throws" /\ found.error.kind \in OtherKinds THEN 0 ELSE 1
<1>1. CASE found.is = "throws"
  <2>1. Refusal(r, found) = found.error /\ IsThrown(found.error)
    BY <1>1, AuthenticationsAssumption DEF Refusal
  <2> QED
    BY <1>1, <2>1, HandledIsCaught DEF StandsIn, IsTheError
<1>2. CASE found.is # "throws"
  <2>1. Refusal(r, found) \in {Error("error", 500, "none"), Error("http", 401, "none"),
                               Error("http", 403, "none"), NoError}
    BY <1>2 DEF Refusal
  <2>2. "error" \in ErrorKinds /\ "http" \in ErrorKinds
    BY DEF ErrorKinds
  <2> QED
    BY <1>2, <2>1, <2>2, ErrorIsCaught
<1> QED
  BY <1>1, <1>2

LEMMA AuthenticatedTells ==
  ASSUME TypeOK, AnswersOK, NEW r \in Requests, Told(r), Authenticated(r)
  PROVE  Tells(r)
<1>1. PICK found \in Authentications :
        /\ result' = [result EXCEPT ![r].authentication = found]
        /\ IF Refusal(r, found) # NoError
             THEN /\ Catch(r, Refusal(r, found))
                  /\ Hooked(r, <<"failure">>)
                  /\ UNCHANGED <<payload, granted>>
             ELSE PerformPipeline(r, <<>>)
  BY DEF Authenticated
<1>2. /\ payload[r] = <<>> /\ failure[r] = NoError /\ FilesTaken(r) /\ given' = given
      /\ result[r].pipeline.is = "none" /\ (Config(r).aspect => hooks[r] = <<"request">>)
  BY DEF Authenticated, Told, Open
<1>3. result'[r].authentication = found /\ result'[r].pipeline.is = "none"
  BY <1>1, <1>2 DEF TypeOK
<1>4. /\ <<"request">> \o <<>> = <<"request">>
      /\ <<"request">> \o <<"failure">> = <<"request", "failure">>
      /\ Append(<<>>, "failure") = <<"failure">>
  BY CallsJoined
<1>5. CASE Refusal(r, found) # NoError
  <2>1. PICK e : e = Refusal(r, found)
    OBVIOUS
  <2>2. Catch(r, e) /\ Hooked(r, <<"failure">>) /\ payload' = payload
    BY <1>1, <1>5, <2>1
  <2>3. /\ IsCaught(e) /\ (found.is = "throws" => StandsIn(e, found.error))
        /\ LogsOf(e) = IF found.is = "throws" /\ found.error.kind \in OtherKinds THEN 0 ELSE 1
    BY <1>5, <2>1, RefusalIsCaught
  <2>4. /\ DOMAIN hooks' = Requests
        /\ \A q \in Requests : q # r => hooks'[q] = hooks[q]
        /\ Config(r).aspect => hooks'[r] = <<"request", "failure">>
    BY <1>2, <1>4, <2>2, HookedTells
  <2>5. Len(payload'[r]) = 0
    BY <1>2, <2>2
  <2>6. LogsOf(e) = Entries(r)' /\ result'[r].authentication.is # "none"
    BY <1>3, <2>3, AuthenticationsAssumption DEF Entries
  <2> QED
    BY <1>2, <1>3, <2>2, <2>3, <2>4, <2>5, <2>6, FailureIsTold
<1>6. CASE Refusal(r, found) = NoError
  <2>1. PerformPipeline(r, <<>>)
    BY <1>1, <1>6
  <2>2. found.is = "payload"
    BY <1>6, AuthorizeIsRight
  <2> QED
    BY <1>2, <1>3, <1>4, <2>1, <2>2, PerformPipelineTells
<1> QED
  BY <1>5, <1>6

LEMMA PerformedTells ==
  ASSUME TypeOK, AnswersOK, NEW r \in Requests, Told(r), Performed(r)
  PROVE  Tells(r)
<1>1. PICK found \in Results :
        /\ result' = [result EXCEPT ![r].pipeline = found]
        /\ IF found.is = "throws" THEN PipelineThrows(r, found) ELSE PipelineReturns(r, found)
  BY DEF Performed
<1>2. /\ Len(payload[r]) = 1 /\ failure[r] = NoError /\ FilesTaken(r)
      /\ result[r].authentication.is # "throws"
      /\ Config(r).aspect => hooks[r] = <<"request">>
  BY DEF Performed, Told, Open
<1>3. given' = given /\ granted' = granted /\ payload' = payload
  BY DEF Performed
<1>4. /\ result'[r].pipeline = found /\ result'[r].authentication.is # "throws"
      /\ found.is # "none"
  BY <1>1, <1>2, ResultsAssumption DEF TypeOK
<1>5. HeadersOf(r)' = HeadersOf(r) /\ Config(r)' = Config(r)
      /\ (FilesTaken(r)' <=> FilesTaken(r))
  BY <1>3 DEF HeadersOf, Def, Config, FilesTaken
<1>6. \A x : <<"request">> \o <<x>> = <<"request", x>>
  BY CallsJoined
<1>7. ASSUME NEW e, IsCaught(e), Catch(r, e), Hooked(r, <<"failure">>),
             IF found.is = "throws" THEN StandsIn(e, found.error)
                                    ELSE \E h \in HeadersOf(r) : h.value = "number",
             LogsOf(e) = IF found.is = "throws" /\ found.error.kind = "text" THEN 2 ELSE 1
      PROVE  Tells(r)
  <2>1. /\ DOMAIN hooks' = Requests
        /\ \A q \in Requests : q # r => hooks'[q] = hooks[q]
        /\ Config(r).aspect => hooks'[r] = <<"request", "failure">>
    BY <1>2, <1>6, <1>7, HookedTells
  <2>2. LogsOf(e) = Entries(r)'
    BY <1>4, <1>7 DEF Entries
  <2> QED
    BY <1>2, <1>3, <1>4, <1>5, <1>7, <2>1, <2>2, FailureIsTold
<1>8. CASE found.is = "throws"
  <2>1. PICK e : e = HandleException(found.error)
    OBVIOUS
  <2>2. Catch(r, e) /\ Hooked(r, <<"failure">>)
    BY <1>1, <1>8, <2>1 DEF PipelineThrows
  <2>3. /\ IsCaught(e) /\ StandsIn(e, found.error)
        /\ LogsOf(e) = IF found.error.kind = "text" THEN 2 ELSE 1
    BY <1>8, <2>1, ResultsAssumption, HandledIsCaught
  <2> QED
    BY <1>7, <1>8, <2>2, <2>3
<1>9. CASE found.is # "throws" /\ \E h \in HeadersOf(r) : h.value = "number"
  <2>1. PICK e : e = TypeError
    OBVIOUS
  <2>2. Catch(r, e) /\ Hooked(r, <<"failure">>)
    BY <1>1, <1>9, <2>1 DEF PipelineReturns
  <2> QED
    BY <1>7, <1>9, <2>1, <2>2, NotFoundIsCaught
<1>10. CASE found.is # "throws" /\ ~\E h \in HeadersOf(r) : h.value = "number"
  <2> DEFINE names == {h.name : h \in {x \in HeadersOf(r) : x.value # "blank"}}
             sent == names \union (IF Body(found) = "octets" THEN {"Content-Type"} ELSE {})
  <2>1. PICK all : all = sent
    OBVIOUS
  <2>2. /\ answer' = [answer EXCEPT ![r] = [status |-> 200, body |-> Body(found),
                                            headers |-> all]]
        /\ at' = [at EXCEPT ![r] = "answered"] /\ Hooked(r, <<"response">>)
        /\ failure' = failure
    BY <1>1, <1>10, <2>1 DEF PipelineReturns
  <2>3. /\ DOMAIN hooks' = Requests
        /\ \A q \in Requests : q # r => hooks'[q] = hooks[q]
        /\ Config(r).aspect => hooks'[r] = <<"request", "response">>
    BY <1>2, <1>6, <2>2, HookedTells
  <2>4. /\ at'[r] = "answered" /\ failure'[r] = NoError
        /\ answer'[r] = [status |-> 200, body |-> Body(found), headers |-> all]
    BY <1>2, <2>2 DEF TypeOK, AnswersOK
  <2>5. AnswersOK' /\ OnlyItsAnswer(r)
    BY <2>2, <2>3 DEF AnswersOK, OnlyItsAnswer
  <2>6. TellsOfSuccess(r)'
    <3>1. Body(found) = "null" <=> found.is \in {"null", "RETURN_NULL"}
      BY DEF Body
    <3>2. \A name \in all :
            name = "Content-Type" \/ \E h \in HeadersOf(r) : h.name = name /\ h.value # "blank"
      BY <2>1
    <3>3. /\ answer'[r].status = 200 /\ answer'[r].body = Body(found)
          /\ answer'[r].headers = all
      BY <2>4
    <3>4. Len(payload'[r]) = 1 /\ NoError' = NoError
      BY <1>2, <1>3 DEF NoError
    <3> QED
      BY <1>4, <1>5, <1>10, <2>4, <3>1, <3>2, <3>3, <3>4 DEF TellsOfSuccess
  <2>7. TellsOfFailure(r)' /\ TellsTheLoggers(r)'
    BY <1>4, <1>5, <1>10, <2>3, <2>4 DEF TellsOfFailure, TellsTheLoggers, NoError
  <2>8. (RefusedForItsFiles(r) <=> ~FilesTaken(r))'
    BY <1>2, <1>4, <1>5 DEF RefusedForItsFiles
  <2> QED
    BY <2>4, <2>5, <2>6, <2>7, <2>8 DEF Tells, Told
<1> QED
  BY <1>8, <1>9, <1>10
-----------------------------------------------------------------------------
(* The payload: what the declaration asks for, out of the request.         *)

(* What is known of an upload. *)
LEMMA UploadIs ==
  ASSUME NEW upload \in Uploads
  PROVE  /\ upload.files \in Seq(ToSet(upload.files)) /\ Len(upload.files) \in Nat
         /\ DOMAIN upload.files = 1..Len(upload.files)
         /\ \A k \in 1..Len(upload.files) : upload.files[k].size \in Nat
         /\ Len(upload.files) = 0 <=> upload.files = <<>>
         /\ ~upload.multipart => upload.files = <<>>
         /\ upload.files = <<>> => Fields(upload) = {}
<1>1. /\ upload.files \in Seq(ToSet(upload.files))
      /\ \A file \in ToSet(upload.files) : file.size \in Nat
      /\ ~upload.multipart => upload.files = <<>>
  BY UploadsAssumption
<1>2. Len(upload.files) \in Nat /\ DOMAIN upload.files = 1..Len(upload.files)
  BY <1>1
<1>3. \A k \in 1..Len(upload.files) : upload.files[k] \in ToSet(upload.files)
  BY <1>2 DEF ToSet
<1>4. upload.files = <<>> => Fields(upload) = {}
  BY DEF Fields
<1> QED
  BY <1>1, <1>2, <1>3, <1>4

(* The interceptors refuse what is not of the form of the declaration, and *)
(* give the files in that form.                                            *)
LEMMA InterceptedInForm ==
  ASSUME NEW files, FilesWell(files), NEW upload \in Uploads,
         NEW value, value = Intercepted(files, upload)
  PROVE  /\ value # Refused <=> OfTheForm(files, upload)
         /\ value # Refused /\ files.is # "none" => value = FileGiven(files, upload)
<1>1. /\ Refused.shape = "refused" /\ Nothing.shape = "nothing"
      /\ \A x : [shape |-> "file", file |-> x].shape = "file"
      /\ \A x : [shape |-> "files", files |-> x].shape = "files"
      /\ \A x : [shape |-> "fields", fields |-> x].shape = "fields"
  BY DEF Refused, Nothing
<1>2. Nothing # Refused /\ AnyFilesInterceptor(upload) # Refused
  BY <1>1 DEF AnyFilesInterceptor
<1>3. CASE SeveralNames(files)
  <2>1. files.is \in {"fields", "checkedFields"} /\ ~OneFile(files)
    BY <1>3 DEF SeveralNames, OneFile
  <2>2. PICK fields : fields = [f \in Fields(upload) |-> FilesOf(upload, f)]
    OBVIOUS
  <2>3. value = IF \/ ~(Fields(upload) \subseteq DOMAIN files.names)
                   \/ \E f \in Fields(upload) :
                        Cardinality(DOMAIN FilesOf(upload, f)) > files.names[f]
                  THEN Refused
                ELSE IF ~upload.multipart THEN Nothing
                ELSE [shape |-> "fields", fields |-> fields]
    <3>1. value = FileFieldsInterceptor(upload, files.names)
      BY <2>1 DEF Intercepted
    <3>2. ~upload.multipart => Fields(upload) = {}
      BY UploadIs
    <3> QED
      BY <2>2, <3>1, <3>2 DEF FileFieldsInterceptor
  <2>4. ASSUME NEW f \in Fields(upload), Fields(upload) \subseteq DOMAIN files.names
        PROVE  Cardinality(DOMAIN FilesOf(upload, f)) > files.names[f]
                 <=> ~(Cardinality(DOMAIN FilesOf(upload, f)) <= files.names[f])
    <3>1. files.names[f] \in Nat
      BY <1>3, <2>4 DEF FilesWell
    <3>2. Cardinality(DOMAIN FilesOf(upload, f)) \in Nat
      <4>1. /\ IsFiniteSet(1..Len(upload.files))
            /\ DOMAIN upload.files = 1..Len(upload.files)
        BY UploadIs, FS_Interval
      <4>2. DOMAIN FilesOf(upload, f) \subseteq 1..Len(upload.files)
        BY <4>1 DEF FilesOf, Restrict
      <4> QED
        BY <4>1, <4>2, FS_Subset, FS_CardinalityType
    <3> QED
      BY <3>1, <3>2
  <2>5. value # Refused <=> OfTheForm(files, upload)
    BY <1>1, <1>2, <1>3, <2>1, <2>3, <2>4 DEF OfTheForm
  <2>6. FileGiven(files, upload) = IF upload.multipart THEN [shape |-> "fields", fields |-> fields]
                                   ELSE Nothing
    BY <1>3, <2>2 DEF FileGiven
  <2> QED
    BY <2>3, <2>5, <2>6
<1>4. CASE OneFile(files)
  <2>1. /\ ~SeveralNames(files) /\ value = FileInterceptor(upload, files.name)
        /\ files.is = "one" \/ (files.is = "checked" /\ files.name # "")
    BY <1>4 DEF OneFile, SeveralNames, Intercepted
  <2>2. value = IF Fields(upload) \ {files.name} # {} \/ Len(upload.files) > 1 THEN Refused
                ELSE IF upload.files = <<>> THEN Nothing
                ELSE [shape |-> "file", file |-> upload.files[1]]
    <3>1. (Len(upload.files) = 0 <=> upload.files = <<>>) /\ Len(upload.files) \in Nat
      BY UploadIs
    <3>2. Len(upload.files) = 0 => ~(Fields(upload) \ {files.name} # {} \/ Len(upload.files) > 1)
      BY UploadIs
    <3> QED
      BY <2>1, <3>1, <3>2 DEF FileInterceptor
  <2>3. OfTheForm(files, upload) <=> Len(upload.files) <= 1 /\ Fields(upload) \subseteq {files.name}
    BY <1>4, <2>1 DEF OfTheForm
  <2>4. Len(upload.files) \in Nat
    BY UploadIs
  <2>5. value # Refused <=> OfTheForm(files, upload)
    BY <1>1, <2>2, <2>3, <2>4
  <2> QED
    BY <1>4, <2>1, <2>2, <2>5 DEF FileGiven
<1>5. CASE ~SeveralNames(files) /\ ~OneFile(files)
  <2>1. CASE files.is = "none"
    BY <1>2, <1>5, <2>1 DEF Intercepted, OfTheForm
  <2>2. CASE files.is = "any" \/ (files.is = "checked" /\ files.name = "")
    <3>1. value = AnyFilesInterceptor(upload)
      BY <2>2 DEF Intercepted
    <3>2. OfTheForm(files, upload)
      BY <1>5, <2>2 DEF OfTheForm
    <3> QED
      BY <1>2, <1>5, <3>1, <3>2 DEF FileGiven, AnyFilesInterceptor
  <2>3. CASE files.is = "checked" /\ files.name # "" /\ files.multiple
    <3>1. value = FilesInterceptor(upload, files.name)
      BY <2>3 DEF Intercepted
    <3>2. value = IF Fields(upload) \ {files.name} # {} THEN Refused ELSE AnyFilesInterceptor(upload)
      BY <3>1 DEF FilesInterceptor
    <3>3. OfTheForm(files, upload) <=> Fields(upload) \subseteq {files.name}
      BY <1>5, <2>3 DEF OfTheForm
    <3> QED
      BY <1>2, <1>5, <3>2, <3>3 DEF FileGiven, AnyFilesInterceptor
  <2> QED
    BY <1>5, <2>1, <2>2, <2>3 DEF FilesWell, SeveralNames, OneFile
<1> QED
  BY <1>3, <1>4, <1>5

(* findMaxSize reads a limit as it is told, without the last digit of a    *)
(* text.                                                                   *)
LEMMA LimitIsRead ==
  ASSUME NEW files, FilesWell(files), files.is \in {"checked", "checkedFields"}
  PROVE  /\ FindMaxSize(files.maxSize) # NoLimit <=> Limited(files.maxSize)
         /\ Limited(files.maxSize) =>
              FindMaxSize(files.maxSize) = Bytes(files.maxSize) /\ Bytes(files.maxSize) \in Nat
<1>1. PICK a, u, m, x :
        /\ a = files.maxSize.amount /\ u = files.maxSize.unit /\ m = FindMaxSize(files.maxSize)
        /\ x = IF u \in {"none", "unreadable"} THEN -1 ELSE IF u = "number" THEN a
               ELSE IF u = "m" THEN 1024 * 1024 * a ELSE IF u = "k" THEN 1024 * a ELSE a \div 10
  OBVIOUS
<1>2. a \in Int /\ u \in {"none", "number", "m", "k", "text", "unreadable"}
  BY <1>1 DEF FilesWell
<1>3. m = IF x >= 0 THEN x ELSE -1
  BY <1>1, <1>2 DEF FindMaxSize, NoLimit
<1>4. Limited(files.maxSize) <=> u \in {"number", "m", "k", "text"} /\ a >= 0
  BY <1>1 DEF Limited
<1>5. Bytes(files.maxSize) = IF u = "m" THEN a * 1048576 ELSE IF u = "k" THEN a * 1024
                             ELSE IF u = "text" THEN a \div 10 ELSE a
  BY <1>1 DEF Bytes
<1>6. x \in Int /\ (u \in {"number", "m", "k", "text"} => (x >= 0 <=> a >= 0))
  BY <1>1, <1>2
<1>7. NoLimit = -1
  BY DEF NoLimit
<1> QED
  BY <1>1, <1>2, <1>3, <1>4, <1>5, <1>6, <1>7

(* The validators let a file pass if and only if it is within the limits. *)
LEMMA ValidIffWithin ==
  ASSUME NEW files, FilesWell(files), files.is \in {"checked", "checkedFields"},
         NEW file, file.size \in Nat
  PROVE  IsValid(files, file) <=>
           /\ Limited(files.maxSize) => file.size <= Bytes(files.maxSize)
           /\ files.mimeType # {} => file.type \in files.mimeType
<1>1. PICK m : m = FindMaxSize(files.maxSize)
  OBVIOUS
<1>2. /\ m # NoLimit <=> Limited(files.maxSize)
      /\ Limited(files.maxSize) => m = Bytes(files.maxSize)
  BY <1>1, LimitIsRead
<1>3. file.size # NoLimit
  BY DEF NoLimit
<1> QED
  BY <1>1, <1>2, <1>3 DEF IsValid

(* Interceptors, pipe and validators take an upload if and only if it is   *)
(* acceptable, and hand on the files in the form of the declaration.       *)
LEMMA TakenIffAcceptable ==
  ASSUME NEW files, FilesWell(files), NEW upload \in Uploads
  PROVE  /\ Parsed(files, upload) # Refused <=> Acceptable(files, upload)
         /\ Parsed(files, upload) # Refused /\ files.is # "none" =>
              Parsed(files, upload) = FileGiven(files, upload)
<1>1. PICK value, up, parsed :
        value = Intercepted(files, upload) /\ up = upload.files /\ parsed = Parsed(files, upload)
  OBVIOUS
<1>2. /\ value # Refused <=> OfTheForm(files, upload)
      /\ value # Refused /\ files.is # "none" => value = FileGiven(files, upload)
  BY <1>1, InterceptedInForm
<1>3. parsed = IF value = Refused \/ ~HasValidators(files) THEN value
               ELSE IF value = Nothing \/ FlatGivenFiles(value) = {} THEN Refused
               ELSE IF \A file \in FlatGivenFiles(value) : IsValid(files, file) THEN value
               ELSE Refused
  BY <1>1 DEF Parsed
<1>4. parsed # Refused /\ files.is # "none" => parsed = FileGiven(files, upload)
  BY <1>2, <1>3
<1>5. HasValidators(files) <=> IsChecked(files)
  BY LimitIsRead DEF HasValidators, IsChecked
<1>6. CASE value = Refused \/ ~IsChecked(files)
  BY <1>1, <1>2, <1>3, <1>4, <1>5, <1>6 DEF Acceptable
<1>7. CASE value # Refused /\ IsChecked(files)
  <2>1. /\ files.is \in {"checked", "checkedFields"} /\ value = FileGiven(files, upload)
        /\ OfTheForm(files, upload)
    BY <1>2, <1>7 DEF IsChecked
  <2>2. /\ DOMAIN up = 1..Len(up) /\ Len(up) \in Nat /\ (Len(up) = 0 <=> up = <<>>)
        /\ \A k \in 1..Len(up) : up[k].size \in Nat
        /\ ~upload.multipart => up = <<>>
    BY <1>1, UploadIs
  <2>3. parsed # Refused <=>
          /\ value # Nothing /\ FlatGivenFiles(value) # {}
          /\ \A file \in FlatGivenFiles(value) : IsValid(files, file)
    BY <1>3, <1>5, <1>7
  <2>4. Acceptable(files, upload) <=>
          /\ up # <<>> /\ (files.is = "checkedFields" => "size" \in Fields(upload))
          /\ \A k \in 1..Len(up) : IsValid(files, up[k])
    BY <1>1, <1>7, <2>1, <2>2, ValidIffWithin DEF Acceptable, WithinLimits
  <2>5. ASSUME up # <<>> => value # Nothing /\ FlatGivenFiles(value) = Range(up),
               up = <<>> => value = Nothing \/ FlatGivenFiles(value) = {},
               files.is # "checkedFields" \/ "size" \in Fields(upload)
        PROVE  parsed # Refused <=> Acceptable(files, upload)
    <3>1. CASE up = <<>>
      BY <2>3, <2>4, <2>5, <3>1
    <3>2. CASE up # <<>>
      <4>1. Range(up) = {up[k] : k \in 1..Len(up)} /\ 1 \in 1..Len(up)
        BY <2>2, <3>2 DEF Range
      <4>2. Range(up) # {}
        BY <4>1
      <4>3. (\A file \in Range(up) : IsValid(files, file)) <=>
              \A k \in 1..Len(up) : IsValid(files, up[k])
        BY <4>1
      <4> QED
        BY <2>3, <2>4, <2>5, <3>2, <4>2, <4>3
    <3> QED
      BY <3>1, <3>2
  <2>6. \A x : /\ [shape |-> "file", file |-> x] # Nothing
               /\ [shape |-> "files", files |-> x] # Nothing
               /\ [shape |-> "fields", fields |-> x] # Nothing
    BY DEF Nothing
  <2>7. CASE files.is = "checked" /\ OneFile(files)
    <3>1. /\ Len(up) <= 1 /\ value = IF up = <<>> THEN Nothing
                                     ELSE [shape |-> "file", file |-> up[1]]
      BY <1>1, <2>1, <2>7 DEF OfTheForm, FileGiven, SeveralNames
    <3>2. up # <<>> => FlatGivenFiles(value) = {up[1]} /\ Range(up) = {up[1]}
      <4>1. SUFFICES ASSUME up # <<>>
                     PROVE  FlatGivenFiles(value) = {up[1]} /\ Range(up) = {up[1]}
        OBVIOUS
      <4>2. DOMAIN up = {1}
        BY <2>2, <3>1, <4>1
      <4> QED
        BY <3>1, <4>1, <4>2 DEF FlatGivenFiles, Range
    <3> QED
      BY <1>1, <1>4, <2>5, <2>6, <2>7, <3>1, <3>2
  <2>8. CASE files.is = "checked" /\ ~OneFile(files)
    <3>1. value = IF upload.multipart THEN [shape |-> "files", files |-> up] ELSE Nothing
      BY <1>1, <2>1, <2>8 DEF FileGiven, SeveralNames
    <3>2. upload.multipart => FlatGivenFiles(value) = Range(up)
      BY <3>1 DEF FlatGivenFiles
    <3>3. up = <<>> => Range(up) = {}
      BY DEF Range
    <3> QED
      BY <1>1, <1>4, <2>2, <2>5, <2>6, <2>8, <3>1, <3>2, <3>3
  <2>9. CASE files.is = "checkedFields"
    <3>1. PICK fields : fields = [f \in Fields(upload) |-> FilesOf(upload, f)]
      OBVIOUS
    <3>2. value = IF upload.multipart THEN [shape |-> "fields", fields |-> fields] ELSE Nothing
      BY <2>1, <2>9, <3>1 DEF FileGiven, SeveralNames
    <3>3. CASE "size" \in Fields(upload)
      <4>1. up # <<>> /\ upload.multipart
        BY <1>1, <2>2, <3>3 DEF Fields
      <4>2. FlatGivenFiles(value) = UNION {Range(fields[f]) : f \in DOMAIN fields}
        BY <3>1, <3>2, <3>3, <4>1 DEF FlatGivenFiles
      <4>3. \A f \in DOMAIN fields : fields[f] = Restrict(up, {k \in DOMAIN up : up[k].field = f})
        BY <1>1, <3>1 DEF FilesOf
      <4>4. DOMAIN fields = {up[k].field : k \in DOMAIN up}
        BY <1>1, <2>2, <3>1 DEF Fields
      <4>5. \A f \in DOMAIN fields : Range(fields[f]) = {up[k] : k \in {j \in DOMAIN up : up[j].field = f}}
        BY <4>3 DEF Restrict, Range
      <4>6. FlatGivenFiles(value) = Range(up)
        <5>1. PICK all : all = Range(up)
          OBVIOUS
        <5>2. all = {up[k] : k \in DOMAIN up}
          BY <5>1 DEF Range
        <5>3. \A x : x \in FlatGivenFiles(value) <=> \E f \in DOMAIN fields : x \in Range(fields[f])
          BY <4>2
        <5>4. \A x : x \in FlatGivenFiles(value) => x \in all
          BY <4>5, <5>2, <5>3
        <5>5. ASSUME NEW k \in DOMAIN up
              PROVE  up[k] \in FlatGivenFiles(value)
          <6>1. up[k].field \in DOMAIN fields
            BY <4>4
          <6>2. up[k] \in Range(fields[up[k].field])
            BY <4>5, <6>1
          <6> QED
            BY <5>3, <6>1, <6>2
        <5>6. \A x : x \in all => x \in FlatGivenFiles(value)
          BY <5>2, <5>5
        <5> QED
          BY <5>1, <5>4, <5>6
      <4> QED
        BY <1>1, <1>4, <2>5, <2>6, <3>2, <3>3, <4>1, <4>6
    <3>4. CASE "size" \notin Fields(upload)
      <4>1. PICK none : none = [field |-> "", size |-> NoLimit, type |-> "none"]
        OBVIOUS
      <4>2. upload.multipart => FlatGivenFiles(value) = {none}
        BY <3>1, <3>2, <3>4, <4>1 DEF FlatGivenFiles
      <4>3. ~IsValid(files, none)
        BY <1>5, <1>7, <2>1, <4>1 DEF IsValid, HasValidators, FilesWell
      <4>4. parsed = Refused
        BY <2>3, <3>2, <4>2, <4>3
      <4> QED
        BY <1>1, <2>4, <2>9, <3>4, <4>4
    <3> QED
      BY <3>3, <3>4
  <2> QED
    BY <2>1, <2>7, <2>8, <2>9
<1> QED
  BY <1>6, <1>7

LEMMA Joined ==
  ASSUME NEW S, NEW s \in Seq(S), NEW t \in Seq(S)
  PROVE  /\ s \o t \in Seq(S) /\ Len(s \o t) = Len(s) + Len(t)
         /\ ToSet(s \o t) = ToSet(s) \union ToSet(t)
<1>1. PICK u : u = s \o t
  OBVIOUS
<1>2. /\ u \in Seq(S) /\ Len(u) = Len(s) + Len(t)
      /\ \A i \in 1..(Len(s) + Len(t)) : u[i] = IF i <= Len(s) THEN s[i] ELSE t[i - Len(s)]
  BY <1>1, ConcatProperties
<1>3. /\ Len(s) \in Nat /\ Len(t) \in Nat /\ DOMAIN s = 1..Len(s) /\ DOMAIN t = 1..Len(t)
      /\ DOMAIN u = 1..(Len(s) + Len(t))
  BY <1>2
<1>4. ASSUME NEW x \in ToSet(u)
      PROVE  x \in ToSet(s) \union ToSet(t)
  <2>1. PICK i \in DOMAIN u : x = u[i]
    BY DEF ToSet
  <2>2. CASE i <= Len(s)
    BY <1>2, <1>3, <2>1, <2>2 DEF ToSet
  <2>3. CASE i > Len(s)
    <3>1. i - Len(s) \in DOMAIN t /\ x = t[i - Len(s)]
      BY <1>2, <1>3, <2>1, <2>3
    <3> QED
      BY <3>1 DEF ToSet
  <2> QED
    BY <1>3, <2>1, <2>2, <2>3
<1>5. ASSUME NEW x \in ToSet(s)
      PROVE  x \in ToSet(u)
  <2>1. PICK i \in DOMAIN s : x = s[i]
    BY DEF ToSet
  <2>2. i \in DOMAIN u /\ u[i] = x
    BY <1>2, <1>3, <2>1
  <2> QED
    BY <2>2 DEF ToSet
<1>6. ASSUME NEW x \in ToSet(t)
      PROVE  x \in ToSet(u)
  <2>1. PICK i \in DOMAIN t : x = t[i]
    BY DEF ToSet
  <2>2. i + Len(s) \in DOMAIN u /\ u[i + Len(s)] = x
    BY <1>2, <1>3, <2>1
  <2> QED
    BY <2>2 DEF ToSet
<1> QED
  BY <1>1, <1>2, <1>4, <1>5, <1>6

(* The part of the request that a parameter stands for. *)
AsPart(def, upload, p) ==
  IF p.type = "file" THEN Named(FileName(def.files), "file", Parsed(def.files, upload))
                     ELSE Named(p.name, p.type, p.name)

AsParts(def, upload, s) == {AsPart(def, upload, p) : p \in ToSet(s)}

PartTypes == {"body", "header", "path", "query", "file"}

(* The parameter of files has their name. *)
IsNamed(def, p) ==
  p.type = "file" /\ ~(def.files.is = "checked" /\ def.files.name = "") =>
    p.name = FileName(def.files)

(* A list of parameters and the parts it stands for. *)
StandsFor(def, upload, s, parts) ==
  /\ s \in Seq(ToSet(s))
  /\ \A p \in ToSet(s) : p.type \in PartTypes /\ IsNamed(def, p)
  /\ AsParts(def, upload, s) = parts

LEMMA EmptyStandsFor ==
  ASSUME NEW def, NEW upload
  PROVE  StandsFor(def, upload, <<>>, {})
<1>1. DOMAIN <<>> = {} /\ <<>> \in Seq({})
  OBVIOUS
<1>2. ToSet(<<>>) = {}
  BY <1>1 DEF ToSet
<1> QED
  BY <1>1, <1>2 DEF StandsFor, AsParts

LEMMA OneStandsFor ==
  ASSUME NEW def, NEW upload, NEW type \in PartTypes, NEW name,
         IsNamed(def, Parameter(type, name))
  PROVE  StandsFor(def, upload, <<Parameter(type, name)>>,
                   {AsPart(def, upload, Parameter(type, name))})
<1>1. PICK p, s : p = Parameter(type, name) /\ s = <<p>>
  OBVIOUS
<1>2. /\ s \in Seq({p}) /\ DOMAIN s = {1} /\ s[1] = p
  BY <1>1
<1>3. ToSet(s) = {p}
  BY <1>2 DEF ToSet
<1>4. p.type = type
  BY <1>1 DEF Parameter
<1> QED
  BY <1>1, <1>2, <1>3, <1>4 DEF StandsFor, AsParts

LEMMA AskedStandsFor ==
  ASSUME NEW def, NEW upload, NEW asked, AsksWell(asked),
         NEW type \in PartTypes \ {"file"}, NEW all
  PROVE  StandsFor(def, upload, Declared(asked, type, all), Part(asked, type, all))
<1>1. ASSUME NEW name
      PROVE  /\ Parameter(type, name).type = type
             /\ AsPart(def, upload, Parameter(type, name)) = Named(name, type, name)
         /\ IsNamed(def, Parameter(type, name))
  BY DEF AsPart, Parameter, PartTypes, IsNamed
<1>2. CASE asked.is = "none"
  BY <1>2, EmptyStandsFor DEF Declared, Part
<1>3. CASE asked.is = "all"
  <2>1. /\ Declared(asked, type, all) = <<Parameter(type, all)>>
        /\ Part(asked, type, all) = {Named(all, type, all)}
    BY <1>3 DEF Declared, Part
  <2> QED
    BY <1>1, <2>1, OneStandsFor
<1>4. CASE asked.is = "names"
  <2>1. PICK s, n : s = Declared(asked, type, all) /\ n = asked.names
    OBVIOUS
  <2>2. n \in Seq(ToSet(n)) /\ s = [k \in 1..Len(n) |-> Parameter(type, n[k])]
    BY <1>4, <2>1 DEF AsksWell, Declared
  <2>3. /\ Len(n) \in Nat /\ DOMAIN n = 1..Len(n) /\ DOMAIN s = DOMAIN n
        /\ \A k \in DOMAIN n : s[k] = Parameter(type, n[k])
    BY <2>2
  <2>4. \A k \in DOMAIN s : s[k] \in ToSet(s)
    BY DEF ToSet
  <2>5. s \in Seq(ToSet(s))
    BY <2>2, <2>3, <2>4
  <2>6. ToSet(s) = {Parameter(type, x) : x \in ToSet(n)}
    BY <2>3 DEF ToSet
  <2>7. Part(asked, type, all) = {Named(x, type, x) : x \in ToSet(n)}
    BY <1>4, <2>1 DEF Part
  <2>8. AsParts(def, upload, s) = {Named(x, type, x) : x \in ToSet(n)}
    BY <1>1, <2>6 DEF AsParts
  <2> QED
    BY <1>1, <2>1, <2>5, <2>6, <2>7, <2>8 DEF StandsFor
<1> QED
  BY <1>2, <1>3, <1>4 DEF AsksWell

LEMMA TogetherStandFor ==
  ASSUME NEW def, NEW upload, NEW s, NEW parts, StandsFor(def, upload, s, parts),
         NEW t, NEW more, StandsFor(def, upload, t, more)
  PROVE  StandsFor(def, upload, s \o t, parts \union more)
<1>1. PICK S, u : S = ToSet(s) \union ToSet(t) /\ u = s \o t
  OBVIOUS
<1>2. s \in Seq(S) /\ t \in Seq(S)
  <2>1. s \in Seq(ToSet(s)) /\ t \in Seq(ToSet(t))
    BY DEF StandsFor
  <2>2. /\ Len(s) \in Nat /\ s \in [1..Len(s) -> ToSet(s)]
        /\ Len(t) \in Nat /\ t \in [1..Len(t) -> ToSet(t)]
    BY <2>1
  <2>3. s \in [1..Len(s) -> S] /\ t \in [1..Len(t) -> S]
    BY <1>1, <2>2
  <2> QED
    BY <2>2, <2>3, SeqDef
<1>3. u \in Seq(ToSet(u)) /\ ToSet(u) = S
  BY <1>1, <1>2, Joined
<1>4. AsParts(def, upload, u) = AsParts(def, upload, s) \union AsParts(def, upload, t)
  BY <1>1, <1>3 DEF AsParts
<1> QED
  BY <1>1, <1>3, <1>4 DEF StandsFor

(* All parameters but the response and the request. *)
Asked(def) ==
  (IF BodyDeclared(def) THEN <<Parameter("body", "body")>> ELSE <<>>)
    \o Declared(def.headers, "header", "headers")
    \o Declared(def.pathParams, "path", "pathParams")
    \o Declared(def.queryParams, "query", "queryParams")
    \o FileParameter(def.files)

LEMMA AskedIsDeclared ==
  ASSUME NEW def, WellDeclared(def), NEW upload \in Uploads,
         Parsed(def.files, upload) # Refused
  PROVE  StandsFor(def, upload, Asked(def), DeclaredParts(def, upload))
<1> DEFINE body == IF BodyDeclared(def) THEN <<Parameter("body", "body")>> ELSE <<>>
           bodyPart == IF def.body = "yes" \/ (def.body = "default" /\ def.method # "get")
                         THEN {Named("body", "body", "body")} ELSE {}
           filePart == IF def.files.is = "none" THEN {}
                       ELSE {Named(FileName(def.files), "file", FileGiven(def.files, upload))}
<1>1. StandsFor(def, upload, body, bodyPart)
  <2>1. BodyDeclared(def) <=> def.body = "yes" \/ (def.body = "default" /\ def.method # "get")
    BY DEF BodyDeclared, WellDeclared
  <2>2. /\ AsPart(def, upload, Parameter("body", "body")) = Named("body", "body", "body")
        /\ IsNamed(def, Parameter("body", "body"))
    BY DEF AsPart, Parameter, IsNamed
  <2>3. "body" \in PartTypes
    BY DEF PartTypes
  <2> QED
    BY <2>1, <2>2, <2>3, OneStandsFor, EmptyStandsFor
<1>2. /\ AsksWell(def.headers) /\ AsksWell(def.pathParams) /\ AsksWell(def.queryParams)
      /\ {"header", "path", "query"} \subseteq PartTypes \ {"file"}
  BY DEF WellDeclared, PartTypes
<1>3. StandsFor(def, upload, FileParameter(def.files), filePart)
  <2>1. CASE def.files.is = "none"
    BY <2>1, EmptyStandsFor DEF FileParameter
  <2>2. CASE def.files.is # "none"
    <3>1. PICK name :
            /\ FileParameter(def.files) = <<Parameter("file", name)>>
            /\ ~(def.files.is = "checked" /\ def.files.name = "") => name = FileName(def.files)
      BY <2>2 DEF FileParameter, FileName
    <3>2. Parsed(def.files, upload) = FileGiven(def.files, upload)
      BY <2>2, TakenIffAcceptable DEF WellDeclared
    <3>3. AsPart(def, upload, Parameter("file", name))
            = Named(FileName(def.files), "file", FileGiven(def.files, upload))
      BY <3>2 DEF AsPart, Parameter
    <3>4. IsNamed(def, Parameter("file", name))
      BY <3>1 DEF IsNamed, Parameter
    <3>5. "file" \in PartTypes
      BY DEF PartTypes
    <3>6. StandsFor(def, upload, <<Parameter("file", name)>>,
                    {AsPart(def, upload, Parameter("file", name))})
      BY <3>4, <3>5, OneStandsFor
    <3> QED
      BY <2>2, <3>1, <3>3, <3>6
  <2> QED
    BY <2>1, <2>2
<1>4. PICK a, b, c, d, e :
        /\ a = body /\ b = Declared(def.headers, "header", "headers")
        /\ c = Declared(def.pathParams, "path", "pathParams")
        /\ d = Declared(def.queryParams, "query", "queryParams")
        /\ e = FileParameter(def.files)
  OBVIOUS
<1>5. PICK A, B, C, D, E :
        /\ A = bodyPart /\ B = Part(def.headers, "header", "headers")
        /\ C = Part(def.pathParams, "path", "pathParams")
        /\ D = Part(def.queryParams, "query", "queryParams")
        /\ E = filePart
  OBVIOUS
<1>6. /\ StandsFor(def, upload, a, A) /\ StandsFor(def, upload, b, B)
      /\ StandsFor(def, upload, c, C) /\ StandsFor(def, upload, d, D)
      /\ StandsFor(def, upload, e, E)
  BY <1>1, <1>2, <1>3, <1>4, <1>5, AskedStandsFor
<1>7. StandsFor(def, upload, (a \o b) \o c, (A \union B) \union C)
  BY <1>6, TogetherStandFor
<1>8. StandsFor(def, upload, (((a \o b) \o c) \o d) \o e,
                (((A \union B) \union C) \union D) \union E)
  BY <1>6, <1>7, TogetherStandFor
<1>9. Asked(def) = (((a \o b) \o c) \o d) \o e
  BY <1>4 DEF Asked
<1>10. DeclaredParts(def, upload) = (((A \union B) \union C) \union D) \union E
  BY <1>5 DEF DeclaredParts
<1> QED
  BY <1>8, <1>9, <1>10

(* What createRequest makes of the arguments of the parameters. *)
ArgumentOf(def, upload, p) ==
  IF p.type = "file" THEN [is |-> "file", value |-> Parsed(def.files, upload)]
                     ELSE [is |-> p.type, value |-> p.name]

IsMadeOf(made, parts) ==
  /\ Cardinality(parts) = 1 => \A p \in parts : made = p.part
  /\ Cardinality(parts) > 1 =>
       /\ DOMAIN made = {p.name : p \in parts}
       /\ \A p \in parts : made[p.name] = p.part

LEMMA CreatedAsDeclared ==
  ASSUME NEW def, WellDeclared(def), NEW upload \in Uploads,
         Parsed(def.files, upload) # Refused, NEW args,
         \A k \in 1..Len(CreateParameterDecorators(def)) :
           args[k] = ArgumentOf(def, upload, CreateParameterDecorators(def)[k]),
         NEW made, made = CreateRequest(def, args),
         NEW parts, parts = DeclaredParts(def, upload)
  PROVE  IsMadeOf(made, parts)
<1> DEFINE all == CreateParameterDecorators(def)
           named == {k \in 1..Len(all) : all[k].type \notin {"response", "request"}}
<1>1. PICK s : s = Asked(def)
  OBVIOUS
<1>2. PICK last, n : last = <<Parameter("response", "$response"),
                              Parameter("request", "$request")>> /\ n = Len(s)
  OBVIOUS
<1>3. all = s \o last
  BY <1>1, <1>2 DEF CreateParameterDecorators, Asked
<1>4. StandsFor(def, upload, s, parts)
  BY <1>1, AskedIsDeclared
<1>5. /\ n \in Nat /\ DOMAIN s = 1..n
      /\ \A k \in 1..n : s[k] \in ToSet(s) /\ s[k].type \in PartTypes /\ IsNamed(def, s[k])
  <2>1. s \in Seq(ToSet(s))
    BY <1>4 DEF StandsFor
  <2>2. n \in Nat /\ DOMAIN s = 1..n
    BY <1>2, <2>1
  <2>3. \A k \in 1..n : s[k] \in ToSet(s)
    BY <2>2 DEF ToSet
  <2> QED
    BY <1>4, <2>2, <2>3 DEF StandsFor
<1>6. /\ Len(all) = n + 2
      /\ \A k \in 1..n : all[k] = s[k]
      /\ all[n + 1].type = "response" /\ all[n + 2].type = "request"
  <2>1. PICK S : S = ToSet(s) \union {last[1], last[2]}
    OBVIOUS
  <2>2. /\ Len(last) = 2 /\ last \in Seq({last[1], last[2]})
        /\ last[1].type = "response" /\ last[2].type = "request"
    BY <1>2 DEF Parameter
  <2>3. s \in Seq(S) /\ last \in Seq(S)
    <3>1. s \in [1..n -> S] /\ last \in [1..2 -> S]
      <4>1. s \in Seq(ToSet(s))
        BY <1>4 DEF StandsFor
      <4>2. s \in [1..n -> ToSet(s)] /\ last \in [1..2 -> {last[1], last[2]}]
        BY <1>2, <2>2, <4>1
      <4> QED
        BY <2>1, <4>2
    <3> QED
      BY <1>5, <3>1, SeqDef
  <2>4. /\ Len(all) = n + 2
        /\ \A i \in 1..(n + 2) : all[i] = IF i <= n THEN s[i] ELSE last[i - n]
    BY <1>2, <1>3, <2>2, <2>3, ConcatProperties
  <2>5. \A k \in 1..n : all[k] = s[k]
    BY <1>5, <2>4
  <2>6. n + 1 \in 1..(n + 2) /\ n + 2 \in 1..(n + 2) /\ (n + 1) - n = 1 /\ (n + 2) - n = 2
        /\ ~(n + 1 <= n) /\ ~(n + 2 <= n)
    BY <1>5
  <2>7. all[n + 1] = last[1] /\ all[n + 2] = last[2]
    BY <2>4, <2>6
  <2> QED
    BY <2>2, <2>4, <2>5, <2>7
<1>7. 1..Len(all) = 1..n \union {n + 1, n + 2}
  BY <1>5, <1>6
<1>8. named = 1..n
  BY <1>5, <1>6, <1>7 DEF PartTypes
<1>9. PICK at_ : at_ = [k \in 1..n |-> AsPart(def, upload, s[k])]
  OBVIOUS
<1>10. \A k \in 1..n : args[k] = at_[k].part
  BY <1>1, <1>5, <1>6, <1>9 DEF AsPart, Named, ArgumentOf
<1>11. parts = {at_[k] : k \in 1..n}
  <2>1. parts = {AsPart(def, upload, p) : p \in ToSet(s)}
    BY <1>4 DEF StandsFor, AsParts
  <2>2. ToSet(s) = {s[k] : k \in 1..n}
    BY <1>5 DEF ToSet
  <2> QED
    BY <1>9, <2>1, <2>2
<1>12. IsFiniteSet(parts)
  <2>1. at_ \in Surjection(1..n, parts)
    BY <1>9, <1>11 DEF Surjection
  <2>2. IsFiniteSet(1..n)
    BY <1>5, FS_Interval
  <2> QED
    BY <2>1, <2>2, FS_Surjection
<1>13. PartsAsked(def) = 1..n
  BY <1>1, <1>5, <1>6 DEF PartsAsked
<1>14. CASE n = 0
  <2>1. parts = {}
    BY <1>11, <1>14
  <2> QED
    BY <2>1, FS_EmptySet DEF IsMadeOf
<1>15. CASE n = 1
  <2>1. parts = {at_[1]}
    BY <1>11, <1>15
  <2>2. Cardinality({at_[1]}) = 1
    BY FS_Singleton
  <2>3. made = args[1]
    BY <1>6, <1>15 DEF CreateRequest
  <2> QED
    BY <1>10, <1>15, <2>1, <2>2, <2>3 DEF IsMadeOf
<1>16. CASE n >= 2
  <2>1. \A k \in 1..n : at_[k].name = s[k].name
    <3>1. ~(def.files.is = "checked" /\ def.files.name = "")
      <4>1. def.files.is = "checked" /\ def.files.name = "" => PartsAsked(def) = {1}
        BY DEF WellDeclared
      <4>2. 2 \in 1..n /\ 2 \notin {1}
        BY <1>5, <1>16
      <4>3. PartsAsked(def) # {1}
        BY <1>13, <4>2
      <4> QED
        BY <4>1, <4>3
    <3>2. ASSUME NEW k \in 1..n, s[k].type = "file"
          PROVE  FileName(def.files) = s[k].name
      BY <1>5, <3>1, <3>2 DEF IsNamed
    <3> QED
      BY <1>9, <3>2 DEF AsPart, Named
  <2>2. \A i, j \in 1..n : s[i].name = s[j].name => i = j
    BY <1>1, <1>6, <1>13 DEF WellDeclared
  <2>3. Cardinality(parts) # 1
    <3>1. 1 \in 1..n /\ 2 \in 1..n /\ 1 # 2
      BY <1>5, <1>16
    <3>2. at_[1].name # at_[2].name
      BY <2>1, <2>2, <3>1
    <3>3. at_[1] \in parts /\ at_[2] \in parts /\ at_[1] # at_[2]
      BY <1>11, <3>1, <3>2
    <3> QED
      BY <1>12, <3>3, FS_Singleton
  <2>4. made = [name \in {all[k].name : k \in named} |->
                  args[CHOOSE k \in named : all[k].name = name]]
    <3>1. ~(Len(all) <= 3)
      BY <1>5, <1>6, <1>16
    <3> QED
      BY <3>1 DEF CreateRequest
  <2>5. {all[k].name : k \in named} = {p.name : p \in parts}
    BY <1>6, <1>8, <1>11, <2>1
  <2>6. ASSUME NEW k \in 1..n
        PROVE  made[at_[k].name] = at_[k].part
    <3>1. all[k].name = at_[k].name
      BY <1>6, <2>1
    <3>2. \A i \in named : all[i].name = at_[k].name => i = k
      BY <1>6, <1>8, <2>1, <2>2
    <3>3. (CHOOSE i \in named : all[i].name = at_[k].name) = k
      BY <1>8, <3>1, <3>2
    <3>4. at_[k].name \in {all[i].name : i \in named} /\ args[k] = at_[k].part
      BY <1>8, <1>10, <3>1
    <3>5. made[at_[k].name] = args[CHOOSE i \in named : all[i].name = at_[k].name]
      BY <2>4, <3>4
    <3> QED
      BY <3>3, <3>4, <3>5
  <2>7. DOMAIN made = {all[k].name : k \in named}
    BY <2>4
  <2>8. \A p \in parts : made[p.name] = p.part
    BY <1>11, <2>6
  <2> QED
    BY <2>3, <2>5, <2>7, <2>8 DEF IsMadeOf
<1> QED
  BY <1>5, <1>14, <1>15, <1>16

(* A pipeline was performed at most once, with what createRequest made of  *)
(* the arguments.                                                          *)
Made(r) ==
  payload[r] # <<>> =>
    FilesTaken(r) /\ payload[r] = <<CreateRequest(Def(r), ArgumentsOf(r))>>

LEMMA MadeStays ==
  ASSUME NEW q \in Requests, Made(q), given' = given, payload'[q] = payload[q]
  PROVE  Made(q)'
<1>1. Def(q)' = Def(q) /\ ArgumentsOf(q)' = ArgumentsOf(q) /\ (FilesTaken(q)' <=> FilesTaken(q))
  BY DEF Def, ArgumentsOf, FilesTaken
<1> QED
  BY <1>1 DEF Made

LEMMA PerformPipelineMakes ==
  ASSUME TypeOK, NEW r \in Requests, NEW calls, PerformPipeline(r, calls), given' = given,
         payload[r] = <<>>, FilesTaken(r)
  PROVE  Made(r)'
<1>1. CASE given[r].to \in Repository
  <2>1. PICK made : made = CreateRequest(Def(r), ArgumentsOf(r))
    OBVIOUS
  <2>2. payload'[r] = Append(<<>>, made)
    BY <1>1, <2>1 DEF PerformPipeline, TypeOK
  <2>3. payload'[r] = <<made>>
    BY <2>2, CallsJoined
  <2>4. Def(r)' = Def(r) /\ ArgumentsOf(r)' = ArgumentsOf(r) /\ FilesTaken(r)'
    BY DEF Def, ArgumentsOf, FilesTaken
  <2> QED
    BY <2>1, <2>3, <2>4 DEF Made
<1>2. CASE given[r].to \notin Repository
  <2>1. payload'[r] = <<>>
    BY <1>2 DEF PerformPipeline
  <2> QED
    BY <2>1 DEF Made
<1> QED
  BY <1>1, <1>2

LEMMA StepsMake ==
  ASSUME TypeOK, NEW r \in Requests, Told(r), Made(r),
         Invoke(r) \/ Authenticated(r) \/ Performed(r)
  PROVE  Made(r)'
<1>1. given' = given
  BY DEF Invoke, Authenticated, Performed
<1>2. ASSUME payload' = payload
      PROVE  Made(r)'
  BY <1>1, <1>2, MadeStays
<1>3. ASSUME NEW calls, PerformPipeline(r, calls), payload[r] = <<>>, FilesTaken(r)
      PROVE  Made(r)'
  BY <1>1, <1>3, PerformPipelineMakes
<1>4. CASE Invoke(r)
  <2>1. payload[r] = <<>>
    BY <1>4 DEF Invoke, Told
  <2>2. payload' = payload \/ (FilesTaken(r) /\ PerformPipeline(r, <<"request">>))
    BY <1>4 DEF Invoke, FilesTaken
  <2> QED
    BY <1>2, <1>3, <2>1, <2>2
<1>5. CASE Authenticated(r)
  <2>1. payload[r] = <<>> /\ FilesTaken(r)
    BY <1>5 DEF Authenticated, Told
  <2>2. payload' = payload \/ PerformPipeline(r, <<>>)
    BY <1>5 DEF Authenticated
  <2> QED
    BY <1>2, <1>3, <2>1, <2>2
<1>6. CASE Performed(r)
  BY <1>2, <1>6 DEF Performed
<1> QED
  BY <1>4, <1>5, <1>6
-----------------------------------------------------------------------------
IInv == TypeOK /\ AnswersOK /\ \A r \in Requests : Guarded(r) /\ Told(r) /\ Made(r)

LEMMA Initially == Init => IInv
<1> SUFFICES ASSUME Init
             PROVE  IInv
  OBVIOUS
<1>1. TypeOK /\ AnswersOK
  BY DEF Init, TypeOK, AnswersOK, Places, Unknown
<1>2. \A r \in Requests : Guarded(r)
  BY DEF Init, Guarded
<1>3. \A r \in Requests : Told(r)
  BY DEF Init, Told, Open, Unknown
<1>4. \A r \in Requests : Made(r)
  BY DEF Init, Made
<1> QED
  BY <1>1, <1>2, <1>3, <1>4 DEF IInv

LEMMA Invariance == IInv /\ [Next]_vars => IInv'
<1> SUFFICES ASSUME IInv, [Next]_vars
             PROVE  IInv'
  OBVIOUS
<1>1. ASSUME NEW r \in Requests, Invoke(r) \/ Authenticated(r) \/ Performed(r)
      PROVE  IInv'
  <2>1. Keeps(r)
    BY <1>1, InvokeKeeps, AuthenticatedKeeps, PerformedKeeps DEF IInv
  <2>2. Tells(r)
    BY <1>1, InvokeTells, AuthenticatedTells, PerformedTells DEF IInv
  <2>3. (\A q \in Requests : Guarded(q))'
    BY <2>1, GuardedEverywhere DEF Keeps, IInv
  <2>4. (\A q \in Requests : Told(q))'
    BY <2>1, <2>2, ToldEverywhere DEF Keeps, Tells, IInv
  <2>5. Made(r)'
    BY <1>1, StepsMake DEF IInv
  <2>6. ASSUME NEW q \in Requests
        PROVE  Made(q)'
    <3>1. CASE q # r
      BY <2>1, <3>1, MadeStays DEF Keeps, Only, IInv
    <3> QED
      BY <2>5, <3>1
  <2> QED
    BY <2>1, <2>2, <2>3, <2>4, <2>6 DEF Keeps, Tells, IInv
<1>2. ASSUME UNCHANGED vars
      PROVE  IInv'
  <2>1. TypeOK' /\ AnswersOK'
    BY <1>2 DEF vars, IInv, TypeOK, AnswersOK
  <2>2. \A r \in Requests : Guarded(r)'
    BY <1>2 DEF vars, IInv, Guarded, Admitted, Config, Def
  <2>3. \A r \in Requests : Told(r)'
    BY <1>2 DEF vars, IInv, Told, Open, FilesTaken, TellsOfSuccess, TellsOfFailure,
                Entries, AnsweredAs, TellsTheLoggers, RefusedForItsFiles, HeadersOf, Config, Def
  <2>4. \A r \in Requests : Made(r)'
    BY <1>2, MadeStays DEF vars, IInv
  <2> QED
    BY <2>1, <2>2, <2>3, <2>4 DEF IInv
<1> QED
  BY <1>1, <1>2 DEF Next, AllAnswered

(* A pipeline is performed only for a caller its definition admits, by     *)
(* what the authentication pipeline answered, and with the roles the       *)
(* definition asked for (authorize).                                       *)
THEOREM OnlyTheAdmitted == Spec => []PerformedOnlyIfPermitted
<1>1. IInv => PerformedOnlyIfPermitted
  BY DEF IInv, Guarded, PerformedOnlyIfPermitted
<1> QED
  BY <1>1, Initially, Invariance, PTL DEF Spec

(* The answer, the log and the loggers tell what happened, the log once if *)
(* it is an Error: whichever of the two pipelines is missing or throws,    *)
(* whatever they throw, Errors, objects, texts or null, and whatever       *)
(* becomes of the headers (doInvokeInternal, handleException,              *)
(* ErrorFilter.catch, doInvokeWithLogAspect).                              *)
THEOREM OutcomeIsTold == Spec => []ToldTheOutcome
<1>1. IInv => ToldTheOutcome
  BY DEF IInv, Told, ToldTheOutcome
<1> QED
  BY <1>1, Initially, Invariance, PTL DEF Spec

(* A request is refused for its files if and only if they are not of the   *)
(* form or beyond the limits declared, and the payload of a pipeline is    *)
(* what its definition declares of the request, one part or several by     *)
(* name, for every declaration whose parts have names of their own         *)
(* (createParameterDecorators, createRequest and request-file.ts).         *)
THEOREM PayloadAlwaysAsDeclared ==
  ASSUME \A code \in DOMAIN Controllers : WellDeclared(Controllers[code])
  PROVE  Spec => []PayloadAsDeclared
<1>1. ASSUME IInv
      PROVE  PayloadAsDeclared
  <2>1. ASSUME NEW r \in Requests
        PROVE  WellDeclared(Def(r)) /\ given[r].upload \in Uploads
    BY <1>1 DEF IInv, TypeOK, Def
  <2>2. ASSUME NEW r \in Requests, at[r] # "new"
        PROVE  RefusedForItsFiles(r) <=> ~Acceptable(Def(r).files, given[r].upload)
    <3>1. FilesTaken(r) <=> Acceptable(Def(r).files, given[r].upload)
      BY <2>1, TakenIffAcceptable DEF FilesTaken, WellDeclared
    <3>2. RefusedForItsFiles(r) <=> ~FilesTaken(r)
      <4>1. at[r] \in {"authenticating", "performing", "answered"}
        BY <1>1, <2>2 DEF IInv, TypeOK, Places
      <4> QED
        BY <1>1, <4>1 DEF IInv, Told, RefusedForItsFiles
    <3> QED
      BY <3>1, <3>2
  <2>3. ASSUME NEW r \in Requests, NEW k \in 1..Len(payload[r]),
               NEW parts, parts = DeclaredParts(Def(r), given[r].upload)
        PROVE  /\ Cardinality(parts) = 1 => \A p \in parts : payload[r][k] = p.part
               /\ Cardinality(parts) > 1 =>
                    /\ DOMAIN payload[r][k] = {p.name : p \in parts}
                    /\ \A p \in parts : payload[r][k][p.name] = p.part
    <3>1. PICK def, args, made, upload :
            /\ def = Def(r) /\ args = ArgumentsOf(r) /\ made = CreateRequest(def, args)
            /\ upload = given[r].upload
      OBVIOUS
    <3>2. payload[r] # <<>>
      BY <2>3
    <3>3. /\ payload[r] = <<made>> /\ Parsed(def.files, upload) # Refused
      BY <1>1, <3>1, <3>2 DEF IInv, Made, FilesTaken
    <3>4. payload[r][k] = made
      BY <2>3, <3>3
    <3>5. WellDeclared(def) /\ upload \in Uploads
      BY <2>1, <3>1
    <3>6. \A i \in 1..Len(CreateParameterDecorators(def)) :
            args[i] = ArgumentOf(def, upload, CreateParameterDecorators(def)[i])
      BY <3>1 DEF ArgumentsOf, ArgumentOf
    <3>7. parts = DeclaredParts(def, upload)
      BY <2>3, <3>1
    <3>8. IsMadeOf(made, parts)
      BY <3>1, <3>3, <3>5, <3>6, <3>7, CreatedAsDeclared
    <3> QED
      BY <3>1, <3>4, <3>8 DEF IsMadeOf
  <2> QED
    BY <2>2, <2>3 DEF PayloadAsDeclared
<1>2. IInv => PayloadAsDeclared
  BY <1>1
<1> QED
  BY <1>2, Initially, Invariance, PTL DEF Spec
=============================================================================
