--------------------------- MODULE MCServerRequest ---------------------------
(***************************************************************************)
(* Controllers of every form of declaration, uploads within and beyond     *)
(* their limits, every result of the authentication and of the pipeline.   *)
(***************************************************************************)
EXTENDS RequestMeaning

CONSTANT r1

none == [is |-> "none"]
all == [is |-> "all"]
names(s) == [is |-> "names", names |-> s]
noFiles == [is |-> "none"]
noLimit == [unit |-> "none", amount |-> 0]
limit(amount, unit) == [unit |-> unit, amount |-> amount]

Api(method, body, headers, path, query, files, auth, expose) ==
  [method |-> method, body |-> body, headers |-> headers, pathParams |-> path,
   queryParams |-> query, files |-> files, authorizations |-> auth,
   exposeHeaders |-> expose]

Checked(name, multiple, size, mime) ==
  [is |-> "checked", name |-> name, multiple |-> multiple, maxSize |-> size,
   mimeType |-> mime]
CheckedFields(size, mime) ==
  [is |-> "checkedFields", names |-> [doc |-> 1, size |-> 2], maxSize |-> size,
   mimeType |-> mime]

text(name) == [name |-> name, value |-> "text"]

MCControllers ==
  [plain |-> Api("post", "default", none, none, none, noFiles, {}, {}),
   list |-> Api("get", "default", names(<<"h1", "h2">>), none, names(<<"page">>), noFiles,
                {"authenticated"}, {text("X-Static"), [name |-> "X-Blank", value |-> "blank"]}),
   ping |-> Api("get", "default", none, none, none, noFiles, {"anonymous", "admin"}, {}),
   two |-> Api("put", "default", none, all, none, noFiles, {"authenticated", "admin"}, {}),
   store |-> Api("post", "default", all, none, none,
                 Checked("doc", FALSE, limit(2, "k"), {"png"}), {"admin", "clerk"}, {}),
   stores |-> Api("post", "no", none, names(<<"id">>), none,
                  Checked("doc", TRUE, limit(2048, "number"), {}), {}, {}),
   any |-> Api("post", "no", none, none, none, [is |-> "any"], {"admin"}, {}),
   one |-> Api("post", "default", none, none, none, [is |-> "one", name |-> "doc"], {}, {}),
   fields |-> Api("post", "default", none, none, all,
                  [is |-> "fields", names |-> [doc |-> 1, other |-> 2]], {}, {}),
   checkedFields |-> Api("post", "no", none, none, none,
                         CheckedFields(limit(1, "m"), {"png"}), {}, {}),
   unnamed |-> Api("post", "no", none, none, none,
                   Checked("", FALSE, limit(2048, "text"), {}), {}, {}),
   numbered |-> Api("post", "default", none, none, none,
                    CheckedFields(noLimit, {}), {},
                    {[name |-> "X-Age", value |-> "number"]}),
   negative |-> Api("post", "no", none, none, none,
                    Checked("doc", TRUE, limit(-1, "k"), {}), {}, {}),
   unread |-> Api("post", "no", none, none, none,
                  Checked("doc", FALSE, limit(1, "unreadable"), {"png"}), {}, {}),
   lost |-> Api("get", "yes", none, none, none, noFiles, {}, {})]

file(field, size, type) == [field |-> field, size |-> size, type |-> type]
upload(files) == [multipart |-> TRUE, files |-> files]

MCUploads ==
  {[multipart |-> FALSE, files |-> <<>>], upload(<<>>),
   upload(<<file("doc", 150, "png")>>), upload(<<file("doc", 2048, "png")>>),
   upload(<<file("doc", 2049, "png")>>), upload(<<file("doc", 150, "txt")>>),
   upload(<<file("doc", 100, "png"), file("doc", 3000, "png")>>),
   upload(<<file("doc", 100, "png"), file("other", 1, "png")>>),
   upload(<<file("doc", 100, "png"), file("size", 1048577, "png")>>),
   upload(<<file("size", 1, "png"), file("size", 2, "txt")>>)}

Identified(authentication, roles) ==
  [is |-> "payload", authentication |-> authentication, roles |-> roles]
Thrown(error) == [is |-> "throws", error |-> error]

Errors ==
  {Error("catchable", 0, "C-1"), Error("exposed", 422, "E-1"),
   Error("uncatchable", 0, "U-1"), Error("http", 404, "none"), Error("http", 400, "H-1"),
   Error("error", 0, "none"), Error("object", 0, "none"), Error("text", 0, "none"),
   Error("nothing", 0, "none")}

MCAuthentications ==
  {Identified(a, roles) : a \in {"none", "text", "object", "numbers"},
                          roles \in {{}, {"admin"}, {"guest"}, {"clerk", "guest"}}}
  \union {[is |-> "null"]} \union {Thrown(e) : e \in Errors}

MCResults ==
  {[is |-> p] : p \in {"null", "RETURN_NULL", "stream", "buffer", "file", "value"}}
  \union {Thrown(e) : e \in Errors}

Settings(auth, pipeline, expose, aspect) ==
  [authEnabled |-> auth, authPipeline |-> pipeline, exposeToken |-> expose,
   exposeAuthentication |-> TRUE, exposeRoles |-> expose, aspect |-> aspect]

MCConfigs ==
  {Settings(TRUE, "Authenticate", TRUE, TRUE), Settings(TRUE, "Authenticate", FALSE, FALSE),
   Settings(FALSE, "Authenticate", TRUE, TRUE), Settings(TRUE, "Missing", TRUE, TRUE)}

MCRepository == (DOMAIN MCControllers \ {"lost"}) \union {"Authenticate"}

ASSUME Covered == \A code \in DOMAIN MCControllers : WellDeclared(MCControllers[code])
===============================================================================
