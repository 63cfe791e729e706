----------------------------- MODULE Enrichment -----------------------------
(***************************************************************************)
(* What a logged request is annotated with besides its threats, by the     *)
(* middleware (middleware/honey.ts) and by the nginx backfill              *)
(* (tools/backfill-from-nginx.ts): what sent it, where its address is      *)
(* (helpers/geoLookup.ts), what kind of network that is                    *)
(* (helpers/ipClassifier.ts), and which proxies it claims to have passed.  *)
(***************************************************************************)
EXTENDS ThreatDetection, Ordering

CONSTANTS
    PathThreats, BodyThreats,   \* the pattern library: [matches, severity, global],
    MethodThreats,              \* and [method, severity]
    AgentsOf,       \* source -> the user agents its expressions match
    LocalIps,       \* addresses geoLookup answers null for
    AsnDataOf,      \* address -> the record of the ASN database: [asn, org]
    ASN_REGISTRY,   \* ASN -> type
    ORG_PATTERNS    \* <<[matches, type], ...>>

Unknown == "null"

Library == [path |-> PathThreats, body |-> BodyThreats, method |-> MethodThreats]

\* The first entry that matches, or what there is without a match.
FirstOf(entries, Matches(_), otherwise) ==
    LET hits == SelectSeq(entries, Matches) IN IF hits = << >> THEN otherwise ELSE Head(hits)

\* The order decides: a bot's agent may name a browser too.
detectSource(userAgent) ==
    IF userAgent = NoText THEN "no-agent"
    ELSE IF userAgent \in AgentsOf.curl THEN "curl"
    ELSE IF userAgent \in AgentsOf.postman THEN "postman"
    ELSE IF userAgent \in AgentsOf.insomnia THEN "insomnia"
    ELSE IF userAgent \in AgentsOf.bot THEN "bot"
    ELSE IF userAgent \in AgentsOf.browser THEN "browser"
    ELSE "unknown"

---------------------------------------------------------------------------
(* Addresses *)

\* The layers an address is located by: none (null) unless both databases are
\* loaded and the address is not local.
geoLookup(loaded, ip) ==
    IF loaded # {"city", "asn"} \/ ip \in LocalIps THEN {} ELSE loaded

\* The ASN's entry, then the first pattern its name matches; null without one.
classifyIp(location, ip) ==
    LET asn == AsnDataOf[ip].asn
        org == AsnDataOf[ip].org
    IN  IF "asn" \notin location \/ asn = Unknown THEN Unknown
        ELSE IF asn \in DOMAIN ASN_REGISTRY THEN ASN_REGISTRY[asn]
        ELSE FirstOf(ORG_PATTERNS, LAMBDA entry : org \in entry.matches,
                     [type |-> "unknown"]).type

---------------------------------------------------------------------------
(* Proxies *)

\* Cloudflare and one reverse proxy each append an address.
TRUSTED_HOPS == 2

\* Entries that are empty once they are trimmed.
Blank == ""

NoChain == [chain |-> << >>, cf |-> FALSE, spoofed |-> FALSE, claimed_ip |-> Unknown]

\* The X-Forwarded-For header as it is sent, entry by entry.
Entries_KeepBlanks(xff) == xff                 \* mutant: .filter(Boolean) is missing
Entries(xff) == EntriesAt(xff, {i \in DOMAIN xff : xff[i] # Blank})

\* Nothing is kept of a single entry without Cloudflare's headers.
parseForwardingChain(xff, hasCfHeaders) ==
    LET chain == Entries(xff)
        spoofed == Len(chain) > TRUSTED_HOPS IN
    IF ~hasCfHeaders /\ Len(chain) < 2 THEN NoChain
    ELSE [ chain |-> chain, cf |-> hasCfHeaders, spoofed |-> spoofed,
           claimed_ip |-> IF spoofed THEN chain[1] ELSE Unknown ]
=============================================================================
