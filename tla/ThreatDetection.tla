-------------------------- MODULE ThreatDetection --------------------------
(***************************************************************************)
(* detectThreats (middleware/honey.ts) over the pattern library            *)
(* (middleware/threatDefinitions.ts): patterns for paths, for bodies and   *)
(* for methods.  A pattern is the texts it matches, a severity, and        *)
(* whether its regular expression carries the g flag: such an expression   *)
(* remembers, after a match, where to resume (lastIndex), and misses in    *)
(* the next text what lies before that.                                    *)
(***************************************************************************)
EXTENDS Integers, SequencesExt

NoText == "nothing"     \* no body, or no user agent

SEVERITY_RANK == [none |-> 0, low |-> 1, medium |-> 2, high |-> 3]

\* The more severe of two levels; the first of two equal ones.
Escalate(level, severity) ==
    IF SEVERITY_RANK[severity] > SEVERITY_RANK[level] THEN severity ELSE level

HighestOf(severities) ==
    CHOOSE level \in severities \cup {"none"} :
        \A s \in severities : SEVERITY_RANK[s] <= SEVERITY_RANK[level]

Signal(category, threat) == [category |-> category, severity |-> threat.severity]

---------------------------------------------------------------------------
(* Body patterns run over the body, the URL and the method *)

\* threat.pattern.test(text), then lastIndex = 0 after a match; a failed test
\* starts over by itself.
Scan_KeepsLastIndex(threat, seen, category, text) ==   \* mutant: lastIndex is not reset
    LET hit == text \in threat.matches /\ ~seen.resumes IN
    [ categories |-> seen.categories \cup IF hit THEN {category} ELSE {},
      resumes |-> hit /\ threat.global ]
Scan(threat, seen, category, text) ==
    LET hit == text \in threat.matches /\ ~seen.resumes IN
    [ categories |-> seen.categories \cup IF hit THEN {category} ELSE {},
      resumes |-> FALSE ]

\* What one body pattern finds in the body if there is one, then in the URL, then
\* in the method, when it starts where its last test left it.
BodyScan(threat, request, resuming) ==
    LET start == [categories |-> {}, resumes |-> threat \in resuming]
        body == IF request.body = NoText THEN start
                ELSE Scan(threat, start, "body", request.body)
        url == Scan(threat, body, "url", request.url)
    IN  Scan(threat, url, "method", request.method)

---------------------------------------------------------------------------

\* library: [path, body, method]; resuming: the body patterns whose lastIndex is
\* not 0.
detectThreats(library, request, resuming) ==
    LET path == {Signal("path", t) : t \in {u \in library.path : request.url \in u.matches}}
        method == {Signal("method", t) :
                      t \in {u \in library.method : u.method = request.method}}
        scans == [t \in library.body |-> BodyScan(t, request, resuming)]
        body == UNION {{Signal(c, t) : c \in scans[t].categories} : t \in library.body}
        agent == IF request.userAgent = NoText
                 THEN {[category |-> "agent", severity |-> "low"]} ELSE {}
        signals == path \cup method \cup body \cup agent
    IN  [ signals |-> signals,
          level |-> HighestOf({s.severity : s \in signals}),
          resuming |-> {t \in library.body : scans[t].resumes} ]
===========================================================================
