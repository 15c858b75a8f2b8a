---------------------------- MODULE RequestMeaning ----------------------------
(***************************************************************************)
(* What the definition of a pipeline says of its requests, apart from how  *)
(* their parameters are made: which uploads are taken, and which payload   *)
(* the pipeline is performed with.  Where the code does otherwise than     *)
(* o23-n99/README.md, "Rest API Pipeline Configuration", says, this is     *)
(* what the code does; the project's README tells of it.                   *)
(***************************************************************************)
EXTENDS ServerRequest

(* A limit that is negative or cannot be read is none; one that is a text  *)
(* without a unit is taken without its last digit (findMaxSize).           *)
Limited(size) == size.unit \in {"number", "m", "k", "text"} /\ size.amount >= 0

Bytes(size) ==
  CASE size.unit = "m" -> size.amount * 1048576
    [] size.unit = "k" -> size.amount * 1024
    [] size.unit = "text" -> size.amount \div 10
    [] OTHER -> size.amount

WithinLimits(files, up) ==
  \A k \in 1..Len(up.files) :
    /\ Limited(files.maxSize) => up.files[k].size <= Bytes(files.maxSize)
    /\ files.mimeType # {} => up.files[k].type \in files.mimeType

(* By the method decorators: one file of a name, any files or those of one *)
(* name, files of several names.                                           *)
OneFile(files) ==
  files.is = "one" \/ (files.is = "checked" /\ files.name # "" /\ ~files.multiple)
SeveralNames(files) == files.is \in {"fields", "checkedFields"}

(* Files come under the names declared, and not in greater numbers.        *)
OfTheForm(files, up) ==
  /\ OneFile(files) => Len(up.files) <= 1
  /\ files.is = "one" \/ (files.is = "checked" /\ files.name # "") =>
       Fields(up) \subseteq {files.name}
  /\ SeveralNames(files) =>
       /\ Fields(up) \subseteq DOMAIN files.names
       /\ \A f \in Fields(up) :
            Cardinality(DOMAIN FilesOf(up, f)) <= files.names[f]

(* Where there is a check, there are files and all of them pass it; those  *)
(* of several names are looked at only if one of the names is "size".      *)
IsChecked(files) ==
  files.is \in {"checked", "checkedFields"} /\ (Limited(files.maxSize) \/ files.mimeType # {})

Acceptable(files, up) ==
  /\ OfTheForm(files, up)
  /\ IsChecked(files) =>
       /\ up.files # <<>>
       /\ files.is = "checkedFields" => "size" \in Fields(up)
       /\ WithinLimits(files, up)

(* The files of a request in the form of their declaration: a file, an     *)
(* array of files, or arrays by name, however many files there are.        *)
FileGiven(files, up) ==
  IF SeveralNames(files)
    THEN IF up.multipart
           THEN [shape |-> "fields", fields |-> [f \in Fields(up) |-> FilesOf(up, f)]]
           ELSE Nothing
  ELSE IF OneFile(files)
    THEN IF up.files = <<>> THEN Nothing ELSE [shape |-> "file", file |-> up.files[1]]
  ELSE IF up.multipart THEN [shape |-> "files", files |-> up.files] ELSE Nothing

FileName(files) == IF files.is \in {"one", "checked"} THEN files.name ELSE "files"

Named(name, type, value) == [name |-> name, part |-> [is |-> type, value |-> value]]

Part(asked, type, default) ==
  CASE asked.is = "none" -> {}
    [] asked.is = "all" -> {Named(default, type, default)}
    [] OTHER -> {Named(n, type, n) : n \in ToSet(asked.names)}

DeclaredParts(def, up) ==
  (IF def.body = "yes" \/ (def.body = "default" /\ def.method # "get")
     THEN {Named("body", "body", "body")} ELSE {})
  \union Part(def.headers, "header", "headers")
  \union Part(def.pathParams, "path", "pathParams")
  \union Part(def.queryParams, "query", "queryParams")
  \union (IF def.files.is = "none" THEN {}
          ELSE {Named(FileName(def.files), "file", FileGiven(def.files, up))})

(* The caller was told that the upload is refused: neither of the          *)
(* pipelines has answered anything.                                        *)
RefusedForItsFiles(r) ==
  /\ at[r] = "answered" /\ answer[r].status = 400
  /\ result[r].authentication.is = "none" /\ result[r].pipeline.is = "none"

(* A request is refused for its files if and only if they are not of the   *)
(* form or beyond the limits that its definition declares; and the payload *)
(* of the pipeline is what is declared: a single part is promoted to the   *)
(* payload, several are attributes under their names, each with its own    *)
(* part of the request (createParameterDecorators, createRequest and the   *)
(* interceptors and pipes of request-file.ts).                             *)
PayloadAsDeclared ==
  \A r \in Requests :
    /\ at[r] # "new" =>
         (RefusedForItsFiles(r) <=> ~Acceptable(Def(r).files, given[r].upload))
    /\ \A k \in 1..Len(payload[r]) :
         LET parts == DeclaredParts(Def(r), given[r].upload) IN
         /\ Cardinality(parts) = 1 =>
              \A p \in parts : payload[r][k] = p.part
         /\ Cardinality(parts) > 1 =>
              /\ DOMAIN payload[r][k] = {p.name : p \in parts}
              /\ \A p \in parts : payload[r][k][p.name] = p.part
-------------------------------------------------------------------------------
(***************************************************************************)
(* The declarations it holds for: they are of the forms that there are,    *)
(* their parts have names of their own, and files that are checked without *)
(* a name, which the code calls "undefined", are the only part.            *)
(***************************************************************************)
AsksWell(asked) ==
  \/ asked.is \in {"none", "all"}
  \/ asked.is = "names" /\ asked.names \in Seq(ToSet(asked.names))

FilesWell(files) ==
  /\ files.is \in {"none", "any", "one", "fields", "checked", "checkedFields"}
  /\ SeveralNames(files) => \A f \in DOMAIN files.names : files.names[f] \in Nat
  /\ files.is \in {"checked", "checkedFields"} =>
       /\ files.maxSize.unit \in {"none", "number", "m", "k", "text", "unreadable"}
       /\ files.maxSize.amount \in Int
       /\ "none" \notin files.mimeType

(* The parameters but the response and the request. *)
PartsAsked(def) == 1..(Len(CreateParameterDecorators(def)) - 2)

WellDeclared(def) ==
  LET asked == CreateParameterDecorators(def) IN
  /\ def.body \in {"default", "yes", "no"}
  /\ \A part \in {def.headers, def.pathParams, def.queryParams} : AsksWell(part)
  /\ FilesWell(def.files)
  /\ \A i, j \in PartsAsked(def) : asked[i].name = asked[j].name => i = j
  /\ def.files.is = "checked" /\ def.files.name = "" => PartsAsked(def) = {1}
===============================================================================
