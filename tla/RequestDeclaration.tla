-------------------------- MODULE RequestDeclaration --------------------------
(***************************************************************************)
(* What the definition of an API pipeline declares of its requests         *)
(* (o23-n2/src/lib/dynamic-module): the parameters of its controller and   *)
(* the payload made of them, the files it takes, who may call it.          *)
(*   def.headers, pathParams, queryParams  [is: none, all, names; names]   *)
(*   def.body            "default", "yes", "no"                            *)
(*   def.files           [is: none, any, one, fields, checked,             *)
(*                        checkedFields; ...], the forms a file takes      *)
(*   def.authorizations  a set of role codes, "anonymous", "authenticated" *)
(* A limit of size is [amount, unit]: a number, a text with the unit m, k  *)
(* or none ("text"), nothing, or what cannot be read as a number; a mime   *)
(* type, which is a pattern, is the set of types it matches, {} when there *)
(* is none.                                                                *)
(***************************************************************************)
EXTENDS Integers, Sequences, FiniteSets, SequencesExt

(***************************************************************************)
(* createParameterDecorators: the parameters in their order.               *)
(***************************************************************************)
Parameter(type, name) == [type |-> type, name |-> name]

BodyDeclared(def) ==
  IF def.method = "get" THEN def.body = "yes" ELSE def.body # "no"

Declared(given, type, all) ==
  CASE given.is = "none" -> <<>>
    [] given.is = "all" -> <<Parameter(type, all)>>
    [] given.is = "names" -> [k \in 1..Len(given.names) |-> Parameter(type, given.names[k])]

(* The text of an undefined name is "undefined".                           *)
FileParameter(files) ==
  CASE files.is = "none" -> <<>>
    [] files.is = "one" -> <<Parameter("file", files.name)>>
    [] files.is = "checked" ->
         <<Parameter("file", IF files.name = "" THEN "undefined" ELSE files.name)>>
    [] OTHER -> <<Parameter("file", "files")>>

CreateParameterDecorators(def) ==
  (IF BodyDeclared(def) THEN <<Parameter("body", "body")>> ELSE <<>>)
    \o Declared(def.headers, "header", "headers")
    \o Declared(def.pathParams, "path", "pathParams")
    \o Declared(def.queryParams, "query", "queryParams")
    \o FileParameter(def.files)
    \o <<Parameter("response", "$response"), Parameter("request", "$request")>>

(* Mutant: one parameter and the response are taken for a single one.      *)
CreateRequestPromoted(def, args) ==
  LET given == CreateParameterDecorators(def)
      named == {k \in 1..Len(given) : given[k].type \notin {"response", "request"}}
  IN IF Len(given) <= 4 THEN args[1]
     ELSE [name \in {given[k].name : k \in named} |->
             args[CHOOSE k \in named : given[k].name = name]]

(***************************************************************************)
(* createRequest: a single parameter is the payload itself, several become *)
(* the attributes of an object.  Response and request are always declared; *)
(* when nothing else is, the first argument is the response.               *)
(***************************************************************************)
CreateRequest(def, args) ==
  LET given == CreateParameterDecorators(def)
      named == {k \in 1..Len(given) : given[k].type \notin {"response", "request"}}
  IN IF Len(given) <= 3 THEN args[1]
     ELSE [name \in {given[k].name : k \in named} |->
             args[CHOOSE k \in named : given[k].name = name]]

(***************************************************************************)
(* External: the interceptors of multer that createMethodDecorator picks   *)
(* leave in the request what was uploaded, or refuse it.                   *)
(***************************************************************************)
Refused == [shape |-> "refused"]
Nothing == [shape |-> "nothing"]

(* The files of a field, by their position in the upload. *)
FilesOf(upload, field) ==
  Restrict(upload.files, {k \in DOMAIN upload.files : upload.files[k].field = field})
Fields(upload) == {upload.files[k].field : k \in 1..Len(upload.files)}

AnyFilesInterceptor(upload) ==
  IF upload.multipart THEN [shape |-> "files", files |-> upload.files] ELSE Nothing

FileInterceptor(upload, name) ==
  CASE Fields(upload) \ {name} # {} \/ Len(upload.files) > 1 -> Refused
    [] Len(upload.files) = 0 -> Nothing
    [] OTHER -> [shape |-> "file", file |-> upload.files[1]]

FilesInterceptor(upload, name) ==
  IF Fields(upload) \ {name} # {} THEN Refused ELSE AnyFilesInterceptor(upload)

(* names: field -> greatest number of files. *)
FileFieldsInterceptor(upload, names) ==
  CASE \/ ~(Fields(upload) \subseteq DOMAIN names)
       \/ \E f \in Fields(upload) :
            Cardinality(DOMAIN FilesOf(upload, f)) > names[f] -> Refused
    [] ~upload.multipart -> Nothing
    [] OTHER -> [shape |-> "fields",
                 fields |-> [f \in Fields(upload) |-> FilesOf(upload, f)]]

(* createMethodDecorator: which of them a definition asks for. *)
Intercepted(files, upload) ==
  CASE files.is = "none" -> Nothing
    [] files.is = "any" -> AnyFilesInterceptor(upload)
    [] files.is = "one" -> FileInterceptor(upload, files.name)
    [] files.is \in {"fields", "checkedFields"} -> FileFieldsInterceptor(upload, files.names)
    [] files.is = "checked" ->
         CASE files.name = "" -> AnyFilesInterceptor(upload)
           [] files.name # "" /\ files.multiple -> FilesInterceptor(upload, files.name)
           [] OTHER -> FileInterceptor(upload, files.name)

(***************************************************************************)
(* The validators.  findMaxSize: a text without a unit loses its last      *)
(* digit, and one that cannot be read or is negative is no limit.          *)
(* flatGivenFiles: files under several names are taken for one file        *)
(* without size and type, unless one of the names is "size".               *)
(***************************************************************************)
NoLimit == -1

FindMaxSize(limit) ==
  LET maxSize == CASE limit.unit \in {"none", "unreadable"} -> NoLimit
                   [] limit.unit = "number" -> limit.amount
                   [] limit.unit = "m" -> 1024 * 1024 * limit.amount
                   [] limit.unit = "k" -> 1024 * limit.amount
                   [] limit.unit = "text" -> limit.amount \div 10
  IN IF maxSize >= 0 THEN maxSize ELSE NoLimit

FlatGivenFiles(value) ==
  CASE value.shape = "file" -> {value.file}
    [] value.shape = "files" -> Range(value.files)
    [] value.shape = "fields" ->
         IF "size" \in DOMAIN value.fields
           THEN UNION {Range(value.fields[f]) : f \in DOMAIN value.fields}
           ELSE {[field |-> "", size |-> NoLimit, type |-> "none"]}

HasValidators(files) ==
  /\ files.is \in {"checked", "checkedFields"}
  /\ FindMaxSize(files.maxSize) # NoLimit \/ files.mimeType # {}

IsValid(files, file) ==
  /\ FindMaxSize(files.maxSize) # NoLimit =>
       file.size # NoLimit /\ file.size <= FindMaxSize(files.maxSize)
  /\ files.mimeType # {} => file.type \in files.mimeType

(* ParseFilePipe wants a file when there are validators. *)
Parsed(files, upload) ==
  LET value == Intercepted(files, upload) IN
  IF value = Refused \/ ~HasValidators(files) THEN value
  ELSE IF value = Nothing \/ FlatGivenFiles(value) = {} THEN Refused
  ELSE IF \A file \in FlatGivenFiles(value) : IsValid(files, file) THEN value
  ELSE Refused

(***************************************************************************)
(* AuthGuardMetadata.                                                      *)
(***************************************************************************)
AuthGuardMetadata(authorizations) ==
  [permitAll |-> authorizations = {},
   anonymous |-> "anonymous" \in authorizations,
   fullyAuthenticated |-> authorizations # {} /\ "anonymous" \notin authorizations,
   roles |-> IF "anonymous" \in authorizations THEN {}
             ELSE authorizations \ {"authenticated"}]

(* Mutant: roles that match nothing are let pass. *)
AuthorizeAnyRole(metadata, roles) ==
  [authorized |-> TRUE,
   roles |-> IF metadata.roles = {} THEN roles ELSE roles \intersect metadata.roles]

Authorize(metadata, roles) ==
  LET matched == roles \intersect metadata.roles IN
  CASE metadata.roles = {} -> [authorized |-> TRUE, roles |-> roles]
    [] metadata.roles # {} /\ matched # {} -> [authorized |-> TRUE, roles |-> matched]
    [] OTHER -> [authorized |-> metadata.permitAll \/ metadata.anonymous, roles |-> {}]
===============================================================================
