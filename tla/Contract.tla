------------------------------ MODULE Contract ------------------------------
(***************************************************************************)
(* The way of one request through the layers of an operation of the HTTP   *)
(* APIs: the generated wrapper binds the parameters, the middleware looks  *)
(* at the caller, the strict handler decodes the body, the handler carries *)
(* the operation out, and a failure becomes the status of an answer.       *)
(***************************************************************************)
EXTENDS Integers

\* The answer to each failure: apierr.Handler, with the error types of the
\* domain.  Whatever is none of these is an internal error, and so is a panic,
\* which the Recoverer answers.
StatusOf == [not_found |-> 404, invalid |-> 400, unauthenticated |-> 401,
             transition |-> 409, conflict |-> 409, unprocessable |-> 422,
             not_implemented |-> 501, internal |-> 500, panic |-> 500]

\* A request that cannot be read: apierr.Handler.Request.
Unreadable == 400

NoParameters == << >>

\* What can be wrong with a request before anybody looks into the database: a
\* parameter that does not parse, no (or a malformed) customer or an unknown
\* API key, a body that is not the JSON expected.  Of a guarded operation that
\* means no JSON at all: the middleware has to read the body for its fingerprint.
\* A body that is empty, or JSON of another form, is let through to the operation,
\* whose strict handler refuses it inside the transaction of the middleware: it is
\* one of the failures "invalid" there.
Flaws == {"parameter", "caller", "body"}

Operation(binds, decodes, writes, reads, served) ==
   [binds |-> binds, decodes |-> decodes, writes |-> writes, reads |-> reads,
    caller |-> served.caller, answers |-> served.answers, fails |-> served.fails,
    changes |-> served.changes]

\* Callers: "anyone"; "user", a customer the handler asks for; "guarded", a
\* customer the idempotency middleware asks for; "venue", the holder of a key
\* the authentication asks for.
Handled(caller, answers, fails, changes) ==
   [caller |-> caller, answers |-> answers, fails |-> fails \cup {"internal", "panic"},
    changes |-> changes]

\* A text is never malformed: it is for the use case to refuse it.
FlawsOf(o) ==
   (IF \E p \in DOMAIN o.binds : o.binds[p] # "text" THEN {"parameter"} ELSE {})
   \cup (IF o.caller = "anyone" THEN {} ELSE {"caller"})
   \cup (IF o.decodes = "nothing" THEN {} ELSE {"body"})

\* Mutant: a key nobody has is reported as the repository reports it.
RefusalUnmapped(o, flaws) ==
   IF flaws = {} THEN 0
   ELSE IF "parameter" \notin flaws /\ "caller" \in flaws
   THEN IF o.caller = "venue" THEN StatusOf["not_found"] ELSE StatusOf["invalid"]
   ELSE Unreadable

\* The answer to a request with these flaws, or 0 when it is let through: the
\* wrapper, then the middleware, then the body, then the handler.
Refusal(o, flaws) ==
   IF flaws = {} THEN 0
   ELSE IF "parameter" \notin flaws /\ "caller" \in flaws
   THEN IF o.caller = "venue" THEN StatusOf["unauthenticated"] ELSE StatusOf["invalid"]
   ELSE Unreadable
=============================================================================
