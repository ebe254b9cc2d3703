# TLA+ models of mozilla::pkix name handling (pkixnames.cpp) and the softoken fork checks (softoken.h)

This directory holds TLA+ models of `src/lib/mozpkix/lib/pkixnames.cpp`, together with the TLC configurations that check them. That file is the part of NSS's mozilla::pkix that:

- matches a certificate's identities against a hostname (`CheckCertHostname`);
- enforces a CA's name constraints on the certificates below it (`CheckNameConstraints`).

A second, independent part is the set of fork-check macros in `src/lib/softoken/softoken.h` (257-372). They make a PKCS #11 call in a process forked after `C_Initialize` fail with CKR_DEVICE_ERROR.

All the other code under `src/` is declarations and TLS unit tests for code that is not in this tree (see "Not modelled").

## The system and how its parts interact

pkixnames.cpp is synchronous, single-threaded and keeps no state between calls. Every function is a deterministic computation over DER input. It has no threads, callbacks, messages, persistence or retries, so none of those hazards exist here. The hazards are in its control flow:

- loops with early exits and flags;
- byte-level parsers with numeric limits;
- two traversals that must agree with each other.

| Part | Code | Module |
|---|---|---|
| DNS-ID syntax: `IsValidDNSID`, with the `IsValidReferenceDNSID` and `IsValidPresentedDNSID` wrappers (1540-1715) | a byte scanner with a label-length counter, hyphen, digit and wildcard rules | `DNSID` |
| DNS-ID matching: `PresentedDNSIDMatchesReferenceDNSID` (961-1101) | ReferenceID mode (hostname matching) and NameConstraint mode (subtree matching, including the suffix alignment and the wildcard skip) | `DNSID` |
| IP literal parsers: `ParseIPv4Address`, `ReadIPv4AddressComponent`, `ParseIPv6Address`, `FinishIPv6Address` (1297-1538) | Reader-driven loops, and a memmove/memset for `::` | `IPAddress` |
| `ReadGeneralName` (73-115) | the GeneralName tag switch | `NameConstraints` |
| The constraint evaluator: `CheckPresentedIDConformsToConstraints` and its subtree loop (660-839); iPAddress masks (1112-1170); directoryName prefixes (1207-1265) | permitted then excluded elements, with the match and mismatch flags | `NameConstraints` |
| The identity search: `SearchNames`, `SearchWithinRDN`, `SearchWithinAVA`, `MatchPresentedIDWithReferenceID` (285-640) | subjectAltName loop, directoryName check, CN-ID fallback with the "last CN wins" rule | `IdentityMatch`, `SearchNames` |
| Fork checks: `FORK_ASSERT`, `PARENT_FORKED`, `CHECK_FORK`, `ENABLE_FORK_CHECK` (softoken.h 257-372) | a compile-time choice of method (pthread_atfork flag, getpid comparison, or Solaris's run-time mix), run in every forked process | `ForkCheck` |
| Entry points: `CheckCertHostname` (182-232) and `CheckNameConstraints` (235-265) | the hostname-type dispatch, and the loop over the descendants of a constrained CA | `PkixNames` |

How the parts interact:

- `CheckCertHostname` validates the hostname as a DNS-ID, or parses it as an IPv6 or IPv4 literal. It then calls `SearchNames` with that reference ID.
- `CheckNameConstraints` calls `SearchNames` once for each descendant certificate, with reference type `nameConstraints`.
- In that mode, `SearchNames` sends every presented identity through the constraint evaluator. The evaluator dispatches to the DNS, IP or directoryName matchers.

The fork checks do not interact with pkixnames.cpp. They run in many processes at once: each process inherits the library globals of its parent at `fork()`.

## Modules

- **DNSID**: `IsValidDNSID` and `PresentedDNSIDMatchesReferenceDNSID`.
  - A byte string is a sequence of one-character strings.
  - The scanner loop is `ScanLabels`, a recursive operator. Each case of its switch is one operator: `ScanHyphen`, `ScanDigit`, `ScanLetter`, `ScanDot`, `ScanFail`. The trailing `isFirstByte = false` is inside `ScanByte`.
  - `MaxDNSIDLength` and `MaxLabelLength` are CONSTANTS, so a run can lower them and reach both boundaries with short strings. The production cfgs use 253 and 63.
  - The checks after the scanner loop (absolute names, the last label, the wildcard's two labels, 1676-1715) are `LastLabelValid`.
  - The matcher is split as the code is: `SkipConstraintPrefix` (the NameConstraint suffix alignment, 984-1036), `WildcardLabelEnd` (1046-1059) and `CompareRest` (the case-insensitive comparison loop, 1061-1081).
- **DNSNameSemantics**: the reference definitions, written at the level of labels rather than bytes. They cover:
  - the validity rules of spec §4.2;
  - RFC 6125 reference matching;
  - RFC 5280 subtree membership, both "every name a wildcard stands for" and "some name".
- **IPAddress**: the parsers. The Reader loops are recursive operators. The results are `[ok, bytes]`. `IPv6Parse` also returns `top`, the highest index of the 16-byte `out` array that the parse writes or refers to. The IPv4 tail counts as the four bytes the `reinterpret_cast` at 1465 refers to. The case `'.'` is `IPv4Tail`.
- **IPAddressSemantics**: RFC 791 dotted quads and the RFC 4291 text forms, stated by splitting the text into fields. It also holds `InIPSubtree`, the RFC 5280 subnet rule stated bit by bit, so it covers any mask and any constraint address.
- **NameConstraints**: `ReadGeneralName`, the evaluator, and the IP and directoryName matchers.
  - Each iteration of the subtree do-while is split in two. `SubtreesFrom` reads the next GeneralSubtree and matches its base. `SubtreeIteration` applies the flags and early returns.
  - `CheckPresentedIDConformsToConstraints` reads the optional `[0]` element, then the optional `[1]` element (`ExcludedAfter`), then requires the end of input (`ConstraintsResult`).
  - A computed result is passed to the next operator as an argument rather than named in a LET and used several times. TLC's coverage profiler expands every syntactic use of a definition, so the LET form makes the profiler slow.
  - DER is abstracted to the structure the code walks. A GeneralName is `[type, value]`. The extension is a sequence of `[tag, subtrees]`. A GeneralSubtree is `[base, extra]`, where `extra` means that a minimum or maximum field is present (BAD_DER).
- **IdentityMatch**: `MatchPresentedIDWithReferenceID`, and `SearchWithinAVA` with its CN encodings rule.
- **SearchNames**: the loop-level state machine of `SearchNames`.
  - Its variables are the arguments, a program counter, the SAN, RDN and AVA indexes, `match`, `hasAtLeastOneDNSNameOrIPAddressSAN` and `rv`.
  - Its actions are `SANEntry` (one iteration of the subjectAltName do-while), `SubjectEntry` (the directoryName check and the fallback decision) and `AVAEntry` (one AVA of `SearchWithinRDN`).
- **SearchNamesSpec**: the abstract specification. It decides the whole call in one atomic step, `Decide`, using `Outcome`, which states the selection rule of spec §4.8 directly:
  - the first decisive SAN entry wins;
  - otherwise the directoryName check decides;
  - the CN is used only if no dNSName or iPAddress SAN exists, and then only the last CN counts.
- **PkixNames**: the library entry points, plus a two-phase verifier.
  - The verifier first runs `CheckNameConstraints` over each descendant of a constrained CA (`NameConstraintsStep`), then runs `CheckCertHostname` on the end entity (`HostnameStep`).
  - `CheckCertHostname` is `HostnameReferenceID` (the DNS-ID, IPv6, IPv4 dispatch, with its fallback flag) followed by one `SearchNames` call and the match-to-Result switch (`HostnameResult`). `CheckNameConstraints` is one `NameConstraintsStep` per descendant, and `ChildResult` is its switch.
  - The verifier itself is the caller's protocol of spec §6 (pkixbuild is not in this tree), and is marked `spec_modelled` in the map.

- **ForkCheck**: the fork-check macros as operators over a build record and a memory image.
  - The build record holds the platform, `NO_FORK_CHECK`, `DEBUG`, Solaris's `usePthread_atfork` and the value of `NSS_STRICT_NOFORK`.
  - The memory image holds the globals `myPid`, `forked` and `sftkForkCheckDisabled`.
  - `ForkCheckMethod` is the `#if` that picks `CHECK_FORK_MIXED`, `_PTHREAD` or `_GETPID` (284-312). `ParentForked` is `PARENT_FORKED` (314-336). `CheckFork` is `CHECK_FORK`, with `FORK_ASSERT` as `ForkAssertFires`. `EnableForkCheck` is `ENABLE_FORK_CHECK`, including the empty non-Unix forms.
- **MCForkCheck**: a tree of processes, each `[state, pid, mem, rv]`.
  - Its actions are `Initialize`, `Fork`, `Exit` and `Call`. A forked child copies its parent's memory. A pid is free again once its process has exited, and the least free pid goes to the next child, so pids are reused.
  - `Initialize` and `Fork` stand for code in `pkcs11.c` and in the kernel, which are not in this tree. `C_Initialize` records `getpid()` in `myPid`, clears `forked`, registers the atfork child handler when the method uses it, and runs `ENABLE_FORK_CHECK`. The atfork handler sets `forked` in the child. These are not in the map.

The MC modules (`MCDNSID`, `MCIPAddress`, `MCIPConstraint`, `MCHostname`, `MCSearchNames`, `MCPkixNames`, `MCForkCheck`) fix the inputs and state the properties. The pure-function modules are checked by a one-call harness: `Init` picks the call's arguments and one step returns the result.

## Runs

| run | cfg | what it shows |
|---|---|---|
| dnsid_syntax | MCDNSID_syntax.cfg | `IsValidDNSID` agrees with the spec §4.2 rules in all three modes. It checks every string of up to 6 bytes over `a B 1 - . *`, with limits 5 and 2 so that the length checks are crossed. |
| dnsid_match | MCDNSID_match.cfg | Over all pairs of strings of up to 5 bytes of `a A . *`: ReferenceID matching is RFC 6125 matching, including a case pair, absolute names and wildcards; NameConstraint matching is the RFC 5280 subtree rule for plain presented IDs; and `ExcludedConstraintSound` shows a wildcard can never slip past an excluded subtree. |
| ip_constraint | MCIPConstraint.cfg | `MatchPresentedIPAddressWithConstraint` matches exactly the same-family addresses that agree with the constraint address on every bit the mask sets. Lengths other than 4/16 and 8/32 give BAD_DER. |
| ip_parse | MCIPAddress.cfg | Both parsers accept exactly the RFC text forms and place each byte correctly. IPv6 inputs include up to 9 fields, every `::` placement, a double `::` and the IPv4 tail. IPv4 inputs include leading zeros, 255 and 256, and empty fields. `WritesWithinOut`: no input makes `ParseIPv6Address` write past `out[15]`, or place the 4-byte dotted-quad array there. Dropping either component check (1455, 1486) breaks it, although the parse would still fail. |
| search_refinement | MCSearchNames.cfg | The loop `SearchNames` implements `SearchNamesSpec` under the refinement mapping `returned <- pc = "Done"`, `result <- [rv, match]`. It covers all certificates of up to 2 SAN entries and 2 RDNs, and hostname and constraint reference IDs. |
| hostname_dispatch | MCHostname.cfg | `CheckCertHostname` tries the DNS-ID syntax first, then IPv6, then IPv4; spec §6 lists IPv6, IPv4, DNS-ID. Over every hostname of up to 7 bytes of `1 a . :` and some longer literals, the code's classification equals the spec's order applied to the RFC definitions: the same reference type, reference bytes and CN-fallback flag. So no hostname is both a reference DNS-ID and an IP literal. The all-zero `::` is the documented exception. |
| verifier | MCPkixNames.cfg | End to end, with non-wildcard SANs: if a serverAuth chain passed `CheckNameConstraints` and `CheckCertHostname` accepts a hostname, then the hostname lies in the CA's permitted dNSName or iPAddress subtrees and outside its excluded ones. This holds whether it matched a SAN or the CN. `AcceptedChainConforms`: an accepted chain has no identity the constraints reject on their own. The identities are every SAN entry, the subject, and the last CN-ID when the fallback applies; they are defined from RFC 5280 and spec §4.8, not from `SearchNames`. `AcceptedChainWithinConstraints`: in an accepted chain, every identity of every descendant lies within the constraints as RFC 5280 defines them. This covers the intermediate's and the end entity's SAN entries, a non-empty subject against directoryName subtrees (an RDN prefix), and the CN-ID. |
| verifier_wildcard | MCPkixNames_wildcard.cfg | **Violation.** The same property fails once a SAN may be `*.c.b`. |
| verifier_malformed | MCPkixNames_malformed.cfg | **Violation.** Spec §7's "ErrBadDer on malformed constraints" fails when the identity is a CN-ID. |
| fork_check | MCForkCheck.cfg | `ForkDetectedExactly`: a call returns without error exactly in the process that ran `C_Initialize`, and in every other process that inherited it, it fails or aborts. This is checked for the builds whose `PARENT_FORKED` reads the atfork flag (Linux, Solaris with pthread_atfork, and non-Unix and `NO_FORK_CHECK` builds, where the property is vacuous), with every `DEBUG` and `NSS_STRICT_NOFORK` setting, over every order of initialize, fork, exit and call among four processes. |
| fork_check_pid | MCForkCheck_pid.cfg | **Violation.** With the getpid comparison (other Unix platforms, Solaris without pthread_atfork), the same property fails when a pid is reused. |

### Finding: a wildcard SAN escapes a permitted dNSName subtree

In NameConstraint mode, `PresentedDNSIDMatchesReferenceDNSID` lets the `*` of a presented ID consume the constraint's whole first label (pkixnames.cpp:1047-1059). So `*.c.b` "matches" a permitted subtree `a.c.b`, and the end-entity certificate passes `CheckNameConstraints`. `CheckCertHostname` then accepts it for `d.c.b`, which is outside the only subtree the CA was allowed.

This contradicts the code's own comment (lines 891-893), which says a name is within a subtree only when whole labels are prefixed, and it contradicts RFC 5280 §4.2.1.10. For excluded subtrees the same leniency is conservative, and `ExcludedConstraintSound` holds.

TLC's trace has three steps:

1. The CA permits `a.c.b`.
2. The end entity has SAN `*.c.b`, and the constraint check succeeds.
3. The hostname `d.c.b` is accepted.

### Finding: malformed constraints are reported differently for a CN-ID

In name-constraint mode, `SearchWithinAVA` turns every error of `CheckPresentedIDConformsToConstraints` for a CN-ID into `Mismatch` (562-566, 582-586). `CheckNameConstraints` then returns ERROR_CERT_NOT_IN_NAME_SPACE. The same error for a SAN entry is returned as it is (330-334). With a 5-byte iPAddress base, a certificate whose only identity is the CN `5.6.7.8` gets NOT_IN_NAME_SPACE, while spec §7 says ErrBadDer. Both results reject the chain, and `AcceptedChainConforms` holds; only the reported error differs.

### Finding: a reused pid defeats the getpid fork check

`CHECK_FORK_GETPID`'s `PARENT_FORKED()` is `myPid && myPid != getpid()` (softoken.h:334), and the mixed method without pthread_atfork is the same (321). A descendant that is given the initializer's old pid therefore passes `CHECK_FORK` and uses the state it inherited. TLC's trace has five steps:

1. Process 1 (pid 1) calls `C_Initialize`.
2. It forks process 2 (pid 2).
3. Process 1 exits, so pid 1 is free.
4. Process 2 forks process 3, which is given pid 1.
5. Process 3's call returns without error.

The flag set by the pthread_atfork handler is copied into every descendant, so the Linux and Solaris/pthread builds have no such gap (`fork_check`). A kernel recycles a pid only after the pid space wraps, so the trace needs many forks in practice, but nothing in the code rules it out.

### Finding: two properties of spec §8 do not hold as written

- **Round trip** (a remark; no run of its own). `PresentedDNSIDMatchesReferenceDNSID` requires a valid presented ID first (967), and a presented ID may not end with a dot. So the valid reference ID `a.` does not match itself. The code follows RFC 6125; the spec property holds only for relative names. An earlier `MCDNSID` run found this counterexample.
- **Mask correctness** (a remark; no run of its own). The spec flips bit `1<<(32-n-1)`, which is the first bit *after* an /n prefix. The mask clears that bit, so the code still matches: with /0, 192.0.2.1 matches 64.0.2.1/0. The formula is off by one, since `1<<(32-n)` lies inside the prefix. The inputs of `ip_constraint` include every such pair, and `IPConstraintAgreesWithSubnet` shows the code is the RFC 5280 rule there.

- **A stale comment** (a remark; no run). The comment at pkixnames.cpp:850-853 says that wildcards of the form `<x>*.<DNSID>` are accepted. The code at 1572-1577, and spec §4.2, accept only a wildcard label that is exactly `*`. The model follows the code. The syntax run cannot tell the two readings apart: the shortest valid case, `a*.a.a`, is 6 bytes, above the length limit of 5 that the run uses.

## Bounds and why they suffice

- **DNS-IDs.** Six bytes hold two labels of two bytes with a wildcard or a trailing dot. With the limits lowered to 5 and 2, they reach every branch of the scanner, including both length checks, where the off-by-one would be.
  - The match runs use two-character alphabets that contain a case pair, a dot and `*`, with strings up to 5 bytes. They include wildcards against one- and two-label references and constraints with and without a leading dot.
  - The production limits (253 and 63) are used there, because the match code does not depend on them.
- **IP literals.** The generators produce every placement of `::` among up to 9 fields. They use 4- and 5-digit groups, a quad tail at each position, and all strings of up to 5 bytes over `1 f : .`. Together these reach every failure branch of `ParseIPv6Address`:
  - the component count (1455, 1483);
  - the component length;
  - a second contraction;
  - a contraction with 8 components (1377);
  - a leading or trailing single colon;
  - `::` alone.
- **IP constraints.** The IPv4 address 192.0.2.1 and its 32 one-bit neighbours are matched against constraints built from any of those 33 addresses. Each uses one of the 33 prefix masks or one of two non-prefix masks. So every bit position is tried inside and outside the mask, and constraint addresses with bits outside the mask occur. IPv6 adds the /0, /64, /127 and /128 masks and flips in the first, middle and last bytes. Cross-family pairs and lengths 3, 5, 7 and 16 reach the BAD_DER and family checks.
- **Hostnames.** All strings of up to 7 bytes over `1 a . :` contain `1.1.1.1`, `a.1` (a DNS-ID with a numeric-looking label), `a::1`, `1::`, and hex-letter strings that are both a DNS label and an IPv6 field. Longer literals add IPv4 tails, eight fields, and a DNS-ID that looks like a dotted quad, `a1.1.1.1`.
- **SearchNames.** Two SAN entries are enough for "a later entry decides" and "a non-matching entry of another type still suppresses the CN". Two RDNs are enough for "a later CN overrides an earlier match", including a BMPString CN and an empty RDN.
  - Three constraint extensions exercise each result path of the evaluator.
- **Verifier.** Each run covers ten constraint extensions:
  - a plain dNSName permit;
  - a multi-label dNSName permit;
  - a leading-dot permit;
  - a permit with an exclusion;
  - an IPv4 subnet;
  - the subnet together with a directoryName;
  - a malformed iPAddress base of 5 bytes.
  - a permitted directoryName of two RDNs;
  - an excluded directoryName of one RDN;
  - an excluded empty directoryName ("no directoryNames").

  Subjects have up to two RDNs, so a subject is shorter than, equal to, or longer than a directoryName constraint, and the intermediate's subject falls in the excluded one.

  These are combined with end entities that have no SANs, a dNSName SAN (and a wildcard SAN in the violation run), an IP SAN, and CNs in three encodings. There are seven hostnames: relative and absolute DNS names, and IPv4 and IPv6 literals.
- **Fork checks.** The violation run uses three processes and two pids, the least that reach pid reuse by a grandchild: the initializer must exit before its pid is handed out again, and the process that forks then must be one it forked. They also reach a child forked before `C_Initialize` that initializes on its own, and a second-generation child of an initialized process. The builds enumerate every platform class, both `NO_FORK_CHECK` and `DEBUG` settings, and the four `NSS_STRICT_NOFORK` cases: unset, `"1"`, another value, and `"DISABLED"`. The passing run uses four processes and three pids (1.26 million states). A pid can then be reused while another is still free, and a great-grandchild of the initializer is reached.

## Fairness

No run assumes fairness or checks liveness. The code's loops end because `der::Reader` consumes a TLV on every iteration. The DER reader is not in this tree, and the models walk already-decoded sequences by index, so termination would hold by the model's own construction and says nothing about the code. The harnesses check safety only. A process may stop at any point and is never obliged to call, so the fork runs set `CHECK_DEADLOCK FALSE`.

## Not modelled

- **Termination of the loops.** See "Fairness": it rests on the DER reader's progress, which is not in this tree.

- **The DER reader** (`Reader`, `der::Nested`, `der::NestedOf`, `ExpectTagAndGetValue`), which is in pkixder and not in this tree. Malformed DER appears in the models only where the modelled functions themselves return BAD_DER:
  - an unknown tag;
  - an empty subjectAltName or RDN;
  - min/max fields;
  - missing or trailing elements.

  Errors in length and tag encoding are not modelled.
- **`BackCert::Init`** and the chain builder (pkixbuild). The order of calls they make is taken from spec §6.
- **The rest of `softoken.h`** declares RSA, audit and FIPS functions that have no behaviour in this tree. `SKIP_AFTER_FORK` (349, 365) is not modelled: its flag `parentForkedAfterC_Initialize` is set in `pkcs11.c`, which is not in this tree.
- **Header and test files**: `sslexp.h`, `tls13con.h` and `secoidt.h` contain only declarations and data. `tls_hkdf_unittest.cc` and `ssl_hrr_unittest.cc` test TLS code that is not in this tree.
- **rfc822Name and URI constraints.** The code does not implement these: it returns FATAL_ERROR_LIBRARY_FAILURE or ERROR_CERT_NOT_IN_NAME_SPACE, and the model keeps those results.

## Further work

- **DER.** Model `ReadGeneralName` and the constraint element reader at byte level over tag and length octets, to reach the BAD_DER paths of partial and trailing input.
- **EKUs other than serverAuth.** Hostname checks on chains built for another EKU, where `CheckNameConstraints` does not constrain the CN. The hazard at pkixnames.cpp:240 describes it; `HostnameWithinNameConstraints` states the end-to-end rule only for serverAuth.
- **Chains with several constrained CAs**, and intermediates with their own SANs.
