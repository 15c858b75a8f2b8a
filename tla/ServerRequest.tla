---------------------------- MODULE ServerRequest ----------------------------
(***************************************************************************)
(* A request to the controller of an API pipeline, from the interceptors   *)
(* to the answer (o23-n2/src/lib/dynamic-module/controllers.ts and         *)
(* exception-handling.ts): files are taken and checked, the authentication *)
(* pipeline is performed when authentication is enabled, then the pipeline *)
(* of the controller, and what it returns or throws becomes the answer.    *)
(* The pipelines are external here: each returns one of its results or     *)
(* throws something.  What is thrown is a record [kind, status, code,      *)
(* printed, logs]; code is "none" if there is none, and that of an error   *)
(* of http is the code of its response, if that is an object with one;     *)
(* logs counts the entries the log has for it.                             *)
(***************************************************************************)
EXTENDS RequestDeclaration

CONSTANTS
  Requests,
  Controllers,     \* code -> definition of the pipeline behind the route
  Repository,      \* the codes PipelineRepository knows
  Configs,         \* settings: [authEnabled, authPipeline, exposeToken,
                   \*  exposeAuthentication, exposeRoles, aspect]
  Uploads,         \* what may be uploaded
  Tokens,          \* values of the header authorization, "" if there is none
  Authentications, \* results of the authentication pipeline
  Results          \* results of a pipeline: payloads, or errors it throws

(* Anything may be thrown: an Error of some class, an object of none, a    *)
(* text or number, which takes no mark, or null.                           *)
ErrorKinds == {"catchable", "exposed", "uncatchable", "http", "error"}
OtherKinds == {"object", "text", "nothing"}

(* Nobody has logged what a pipeline throws.                               *)
IsThrown(e) ==
  /\ DOMAIN e = {"kind", "status", "code", "printed", "logs"}
  /\ e.kind \in ErrorKinds \union OtherKinds
  /\ e.printed = FALSE /\ e.logs = 0

(* The authentication pipeline returns a payload or null, or throws.       *)
ASSUME AuthenticationsAssumption ==
  \A found \in Authentications :
    /\ found.is \in {"payload", "null", "throws"}
    /\ found.is = "throws" => IsThrown(found.error)

(* There are no files but in a request of several parts.                   *)
ASSUME UploadsAssumption ==
  \A upload \in Uploads :
    /\ upload.files \in Seq(ToSet(upload.files))
    /\ \A file \in ToSet(upload.files) : file.size \in Nat
    /\ ~upload.multipart => upload.files = <<>>

ASSUME ResultsAssumption ==
  \A found \in Results : found.is # "none" /\ (found.is = "throws" => IsThrown(found.error))

VARIABLES
  given,    \* request -> [to, upload, token], and the settings it meets
  at,       \* request -> "new", "authenticating", "performing", "answered"
  granted,  \* request -> the authorization put into its context
  payload,  \* request -> the payloads its pipeline was performed with
  result,   \* request -> what the authentication and the pipeline gave
  answer,   \* request -> [status, body, headers]
  failure,  \* request -> the error it failed with
  hooks     \* request -> the calls of the request and response logger

vars == <<given, at, granted, payload, result, answer, failure, hooks>>

Unknown == [is |-> "none"]
NoError == [kind |-> "none"]
Error(kind, status, code) ==
  [kind |-> kind, status |-> status, code |-> code, printed |-> FALSE, logs |-> 0]

Init ==
  /\ given \in [Requests -> [to : DOMAIN Controllers, upload : Uploads,
                            token : Tokens, config : Configs]]
  /\ at = [r \in Requests |-> "new"]
  /\ granted = [r \in Requests |-> [is |-> "none"]]
  /\ payload = [r \in Requests |-> <<>>]
  /\ result = [r \in Requests |-> [authentication |-> Unknown, pipeline |-> Unknown]]
  /\ answer = [r \in Requests |-> [status |-> 0, body |-> "none", headers |-> {}]]
  /\ failure = [r \in Requests |-> NoError]
  /\ hooks = [r \in Requests |-> <<>>]

Config(r) == given[r].config
Def(r) == Controllers[given[r].to]
Metadata(r) == AuthGuardMetadata(Def(r).authorizations)

(***************************************************************************)
(* handleException logs and marks the error; what cannot be marked is      *)
(* logged and throws a TypeError in the marking, null already in the       *)
(* logging.  ErrorFilter.catch logs the errors that are not marked, only   *)
(* if they are Errors, and replies.                                        *)
(***************************************************************************)
(* Mutant: the error is logged without the mark. *)
HandleExceptionUnmarked(e) == [e EXCEPT !.logs = @ + 1]

HandleException(e) ==
  CASE e.kind = "nothing" -> Error("error", 500, "none")
    [] e.kind = "text" -> [Error("error", 500, "none") EXCEPT !.logs = 1]
    [] OTHER -> [e EXCEPT !.logs = @ + 1, !.printed = TRUE]

StatusOf(e) == IF e.kind \in {"http", "exposed"} THEN e.status ELSE 500

BodyOf(e) ==
  IF e.kind \in {"catchable", "exposed", "uncatchable", "http"} /\ e.code # "none"
    THEN e.code ELSE "ERR_UNKNOWN"

Catch(r, e) ==
  /\ failure' = [failure EXCEPT ![r] =
       IF e.kind \in OtherKinds THEN e
       ELSE [e EXCEPT !.logs = IF e.printed THEN @ ELSE @ + 1, !.printed = FALSE]]
  /\ answer' = [answer EXCEPT ![r].status = StatusOf(e), ![r].body = BodyOf(e)]
  /\ at' = [at EXCEPT ![r] = "answered"]

(* The loggers of doInvokeWithLogAspect. *)
Hooked(r, calls) ==
  hooks' = [hooks EXCEPT ![r] = IF Config(r).aspect THEN @ \o calls ELSE @]

(***************************************************************************)
(* doInvokeInternal up to the pipeline: it is looked up and performed with *)
(* the payload made of the arguments of the controller.  An argument is    *)
(* named after what it holds.                                              *)
(***************************************************************************)
NotFound == HandleException(Error("uncatchable", 500, "ERR_PIPELINE_NOT_FOUND"))

ArgumentsOf(r) ==
  LET parameters == CreateParameterDecorators(Def(r)) IN
  [k \in 1..Len(parameters) |->
     IF parameters[k].type = "file"
       THEN [is |-> "file", value |-> Parsed(Def(r).files, given[r].upload)]
       ELSE [is |-> parameters[k].type, value |-> parameters[k].name]]

PerformPipeline(r, calls) ==
  IF given[r].to \in Repository
    THEN /\ payload' = [payload EXCEPT ![r] = Append(@, CreateRequest(Def(r), ArgumentsOf(r)))]
         /\ at' = [at EXCEPT ![r] = "performing"]
         /\ Hooked(r, calls)
         /\ UNCHANGED <<answer, failure>>
    ELSE /\ Catch(r, NotFound)
         /\ Hooked(r, Append(calls, "failure"))
         /\ UNCHANGED payload

(***************************************************************************)
(* The interceptor and the pipe come first, then invoke and authorize up   *)
(* to the authentication pipeline.                                         *)
(***************************************************************************)
Invoke(r) ==
  /\ at[r] = "new"
  /\ UNCHANGED <<given, granted, result>>
  /\ IF Parsed(Def(r).files, given[r].upload) = Refused
       THEN Catch(r, Error("http", 400, "none")) /\ UNCHANGED <<payload, hooks>>
     ELSE IF ~Config(r).authEnabled THEN PerformPipeline(r, <<"request">>)
     ELSE IF Config(r).authPipeline \in Repository
       THEN /\ at' = [at EXCEPT ![r] = "authenticating"]
            /\ Hooked(r, <<"request">>)
            /\ UNCHANGED <<payload, answer, failure>>
       ELSE /\ Catch(r, NotFound)
            /\ Hooked(r, <<"request", "failure">>)
            /\ UNCHANGED payload

(***************************************************************************)
(* authorize, behind its pipeline.  authentication is "none", "text",      *)
(* "object" (its attributes are texts) or "numbers" (one is a number).     *)
(***************************************************************************)
ExposedHeaders(r, authentication, roles) ==
  (IF given[r].token # "" /\ Config(r).exposeToken
     THEN {[name |-> "O23-Authorization", value |-> "text"]} ELSE {})
  \union (IF authentication # "none" /\ Config(r).exposeAuthentication
            THEN {[name |-> "O23-Authentication",
                   value |-> IF authentication = "numbers" THEN "number" ELSE "text"]}
            ELSE {})
  \union (IF roles # {} /\ Config(r).exposeRoles
            THEN {[name |-> "O23-Authorized-Roles", value |-> "text"]} ELSE {})

(* A payload of null cannot be taken apart; none has the default.          *)
Refusal(r, found) ==
  CASE found.is = "throws" -> found.error
    [] found.is = "null" -> Error("error", 500, "none")
    [] OTHER ->
         IF Metadata(r).fullyAuthenticated /\ found.authentication = "none"
           THEN Error("http", 401, "none")
         ELSE IF ~Authorize(Metadata(r), found.roles).authorized
           THEN Error("http", 403, "none")
         ELSE NoError

Authenticated(r) ==
  /\ at[r] = "authenticating"
  /\ \E found \in Authentications :
       /\ result' = [result EXCEPT ![r].authentication = found]
       /\ IF Refusal(r, found) # NoError
            THEN /\ Catch(r, Refusal(r, found))
                 /\ Hooked(r, <<"failure">>)
                 /\ UNCHANGED <<payload, granted>>
            ELSE LET roles == Authorize(Metadata(r), found.roles).roles IN
                 /\ granted' = [granted EXCEPT ![r] =
                      [is |-> "granted", authentication |-> found.authentication,
                       roles |-> roles,
                       headers |-> ExposedHeaders(r, found.authentication, roles)]]
                 /\ PerformPipeline(r, <<>>)
  /\ UNCHANGED given

(***************************************************************************)
(* The pipeline ends: the headers are trimmed, a blank one left out, one   *)
(* that is no text fails the request after all; then the body is made.     *)
(***************************************************************************)
HeadersOf(r) ==
  Def(r).exposeHeaders \union (IF granted[r].is = "none" THEN {} ELSE granted[r].headers)

TypeError == HandleException(Error("error", 500, "none"))

Body(found) ==
  CASE found.is \in {"null", "RETURN_NULL"} -> "null"
    [] found.is \in {"stream", "buffer", "file"} -> "octets"
    [] OTHER -> "payload"

PipelineReturns(r, found) ==
  IF \E h \in HeadersOf(r) : h.value = "number"
    THEN Catch(r, TypeError) /\ Hooked(r, <<"failure">>)
    ELSE /\ answer' = [answer EXCEPT ![r] =
                [status |-> 200, body |-> Body(found),
                 headers |-> {h.name : h \in {x \in HeadersOf(r) : x.value # "blank"}}
                               \union (IF Body(found) = "octets"
                                         THEN {"Content-Type"} ELSE {})]]
         /\ at' = [at EXCEPT ![r] = "answered"]
         /\ Hooked(r, <<"response">>)
         /\ UNCHANGED failure

PipelineThrows(r, found) ==
  Catch(r, HandleException(found.error)) /\ Hooked(r, <<"failure">>)

Performed(r) ==
  /\ at[r] = "performing"
  /\ \E found \in Results :
       /\ result' = [result EXCEPT ![r].pipeline = found]
       /\ IF found.is = "throws" THEN PipelineThrows(r, found) ELSE PipelineReturns(r, found)
  /\ UNCHANGED <<given, granted, payload>>

AllAnswered == (\A r \in Requests : at[r] = "answered") /\ UNCHANGED vars

Next == (\E r \in Requests : Invoke(r) \/ Authenticated(r) \/ Performed(r)) \/ AllAnswered

Spec == Init /\ [][Next]_vars
-------------------------------------------------------------------------------
(* The documentation: no authorization, or "anonymous", admits everyone,   *)
(* "authenticated" whoever has an authentication, other strings whoever    *)
(* also has one of them as a role; only the matched roles reach the        *)
(* context.                                                                *)
Permitted(authorizations, found) ==
  \/ authorizations = {}
  \/ "anonymous" \in authorizations
  \/ /\ found.authentication # "none"
     /\ \/ authorizations = {"authenticated"}
        \/ found.roles \intersect (authorizations \ {"authenticated"}) # {}

RolesFor(authorizations, found) ==
  IF authorizations \subseteq {"authenticated"} \/ "anonymous" \in authorizations
    THEN found.roles ELSE found.roles \intersect (authorizations \ {"authenticated"})

(* The caller may have the pipeline performed, by what the authentication  *)
(* pipeline answered before, and the context holds the roles asked for.    *)
Admitted(r) ==
  Config(r).authEnabled =>
    LET found == result[r].authentication IN
    /\ found.is = "payload"
    /\ Permitted(Def(r).authorizations, found)
    /\ granted[r].is = "granted"
    /\ granted[r].authentication = found.authentication
    /\ granted[r].roles = RolesFor(Def(r).authorizations, found)

(* A pipeline is performed only for a caller its definition admits, by     *)
(* what the authentication pipeline answered before; the roles in its      *)
(* context are those it asked for (authorize, AuthGuardMetadata).          *)
PerformedOnlyIfPermitted == \A r \in Requests : payload[r] # <<>> => Admitted(r)

IsTheError(f, e) == f.kind = e.kind /\ f.status = e.status /\ f.code = e.code

(* What a pipeline was performed for, once, is answered with 200 if it     *)
(* returned; the exception is a header that is no text.                    *)
TellsOfSuccess(r) ==
  LET found == result[r].pipeline IN
  /\ Len(payload[r]) = IF found.is = "none" THEN 0 ELSE 1
  /\ failure[r] = NoError <=>
       found.is \notin {"none", "throws"} /\ \A h \in HeadersOf(r) : h.value # "number"
  /\ failure[r] = NoError =>
       /\ answer[r].status = 200
       /\ answer[r].body = "null" <=> found.is \in {"null", "RETURN_NULL"}
       /\ \A name \in answer[r].headers :
            name = "Content-Type" \/ \E h \in HeadersOf(r) : h.name = name /\ h.value # "blank"

(* Entries of the log for a failure: one for each Error and for the        *)
(* failures of the server's own; but none for anything else that the       *)
(* authentication throws, and two for a text that a pipeline throws, the   *)
(* text and the TypeError in marking it.                                   *)
Entries(r) ==
  LET before == result[r].authentication
      then == result[r].pipeline
  IN CASE before.is = "throws" /\ before.error.kind \in OtherKinds -> 0
       [] before.is # "throws" /\ then.is = "throws" /\ then.error.kind = "text" -> 2
       [] OTHER -> 1

AnsweredAs(r, e) ==
  /\ answer[r].status = IF e.kind \in {"http", "exposed"} THEN e.status ELSE 500
  /\ answer[r].body = IF e.kind \in ErrorKinds \ {"error"} /\ e.code # "none"
                        THEN e.code ELSE "ERR_UNKNOWN"

(* Whatever is thrown, it is answered with its status and code if it has   *)
(* any; an Error keeps them on the way, and is logged exactly once.        *)
TellsOfFailure(r) ==
  /\ \A found \in {result[r].authentication, result[r].pipeline} :
       found.is = "throws" =>
         /\ found.error.kind \in ErrorKinds => IsTheError(failure[r], found.error)
         /\ AnsweredAs(r, found.error)
  /\ failure[r] # NoError =>
       failure[r].logs = Entries(r) /\ AnsweredAs(r, failure[r])

(* The loggers are called once each, for what the interceptors let pass.   *)
TellsTheLoggers(r) ==
  Config(r).aspect /\ Parsed(Def(r).files, given[r].upload) # Refused =>
    hooks[r] = <<"request", IF failure[r] = NoError THEN "response" ELSE "failure">>

(* The answer, the log and the loggers tell what happened to a request,    *)
(* the log once for every Error; what is thrown and is none is answered as *)
(* unknown, and logged as often as `Entries` says (doInvokeInternal,       *)
(* doInvokeWithLogAspect, handleException and ErrorFilter.catch, which log *)
(* and mark the same error).                                               *)
ToldTheOutcome ==
  \A r \in Requests : at[r] = "answered" =>
    TellsOfSuccess(r) /\ TellsOfFailure(r) /\ TellsTheLoggers(r)
=============================================================================
