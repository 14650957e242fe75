# netsec-auditor: a TLA+ verification project

netsec-auditor is an asynchronous Python command-line tool that audits networks
of ordinary, IoT and industrial (OT) devices. Its promise is as much about what
it does *not* do as about what it finds: it stays inside an authorised scope,
keeps to a rate, and treats industrial equipment gently. This directory models
the parts of the tool on which those promises depend, checks them with TLC and
proves the most important ones with TLAPS.

All paths below are relative to the repository; `engine.py` without a directory
is `src/netsec_auditor/scanner/engine.py`, and so on. Run a model with
`tlc -config X.cfg M`, a proof with `tlapm M.tla`.

## 1. Inventory of the system

| Component | State it keeps | Operations | Interacts with |
| --- | --- | --- | --- |
| Start-rate limiters (`engine.py:31`, `discovery/fast.py:41`, `protocols/scan.py:59`) | the next start slot, a FIFO lock | `acquire` | awaited by every host scan, host probe and protocol probe |
| Scan engine (`engine.py:218-544`) | worker semaphore, finished coroutines, the nmap processes in worker threads | `scan_host`, `scan_network`, `_run_nmap`, result parsing | scope (ports, rate), limiter, nmap |
| Banner grabber, ping sweep, ARP scan (`engine.py:547-644`) | none between calls | `grab_banners`, `ping_sweep`, `arp_scan` | fast discovery, scapy |
| Fast discovery (`discovery/fast.py`) | batch of hosts, semaphore, live set | `expand_targets`, `fast_discover` | limiter |
| Masscan import, passive inventory, captures (`discovery/masscan.py`, `discovery/passive.py`, `capture/pcap.py`) | hosts seen so far, capture position | `add_observation`, `sniff_for`, `analyze_pcap` | scapy's capture thread |
| Profiles and interlock (`profiles.py`) | none | `get_profile`, `classify_ports`, `apply_interlock` | engine, identification |
| Probe framework (`protocols/base.py`) | registry, one connection per exchange | `read_framed`, `tcp_request`, `udp_request` | the peer's byte stream or datagrams |
| Probes (`protocols/ot.py`, `iot.py`, `smb.py`, `snmp.py`, `amplification.py`) | one connection, for S7 three requests on it | `probe_*` | probe framework |
| Device identification (`protocols/scan.py`, host loops of `cli.py`) | semaphore, next start slot, per host | `identify_services` | profiles, probes, scope |
| Scope (`scanner/scope.py`) | ranges, exclusions, allowed ports, rate | `resolve_in_scope`, `validate_target`, `validate_port` | everything that sends packets; DNS |
| Web scanner and TLS checks (`web/`) | shared HTTP client with cookie jar | `scan`, `_safe_request`, TLS handshakes | scope (each redirect hop) |
| Vulnerability matcher and NVD client (`vuln/detector.py`) | rules; NVD cache files | `scan_hosts`, `search_cve`, `get_cve` | engine's results, NVD |
| Threat intelligence (`intel/enrich.py`) | KEV map and cache file | `KevCatalog.load`, `EpssClient.scores`, `enrich_cves` | CISA, FIRST, Shodan |
| Wireless inventory (`wireless/`) | access points and devices by identifier | `add_ap`, `add_ble`, `detect_evil_twins` | platform tools, wardriving files |
| Report generator (`report/generator.py`) | one report, output files | `build_report`, `generate_all` | all results |
| NSE integration (`integrations/nse.py`) | a subprocess | `run_nse` | nmap |
| Command line (`cli.py`) | the event loop of one command | `scan`, `full`, `walk`, `identify`, ... | composes all of the above |

What is hard here. One event loop interleaves many coroutines that share
limiters, semaphores and results; nmap runs in threads that cannot be
cancelled; timers fire late; peers send bytes in pieces, late or not at all;
several processes share cache files and may be killed while they write; a
name's address may change between a check and its use. `PROJECT.json` lists
these hazards one by one with their line and the properties that would catch
them.

What makes the components correct:

* limiter: never more starts in a window than the rate allows, up to the
  slack its implementation has, and nobody waits for ever;
* engine: worker slots are conserved on every path, an industrial scan runs
  alone and gently, a scan ends and nothing keeps running;
* discovery: every host of the range is tried on every port until it answers,
  within the connection limit, the rate and the size limit, and no masscan is
  left behind;
* exchange: the PLC's connection is given back, requests and replies stay in
  step, every probe ends;
* probes: what a probe reports was accepted by the device, whatever the network
  loses, doubles or delays, and no socket outlives its time;
* identification: the right probes, once each, under the right profile, at the
  right pace;
* web audit: every connection goes where the scope allows when it is made, what
  answered is reported, and nothing is sent after the audit has returned;
* captures: the inventory is what the packets read say, however the capture
  ends; a secret is reported under its server and never shown;
* wireless: no network lost or made up, each with the verdict its settings
  deserve whichever tool saw it (with two exceptions, section 3), the report saying
  the same and, redacted, naming nobody, and no tool left running;
* KEV catalogue: never an outdated edition presented as current, never a good
  download lost, always something to fall back to;
* NVD client: a torn cache file never counts as an answer, a lookup changes
  nothing but a score the NVD has published;
* reports: they agree with what was found, and no report once written is
  overwritten or claimed without being whole.

## 2. Modules

| Module | Models | Kind |
| --- | --- | --- |
| `RateCap` | what a start-rate limiter promises | abstract specification |
| `RateLimiter` | `_RateLimiter` (`Rereads = FALSE`) and `_StartRateLimiter` / `_throttle` (`Rereads = TRUE`) | implements `RateCap` |
| `Semaphore` | `asyncio.Semaphore` as the tool uses it | component, instantiated three times |
| `Subprocess` | a child process under a timeout: `create_subprocess_exec`, `communicate`, kill, wait | component, instantiated three times |
| `ScanNetwork` | `PortScanner.scan_network`, `_scan_one`, the argument choice of `_run_nmap` | composes `RateLimiter` and `Semaphore` |
| `Discover` | `discover` and walk's discovery: `expand_targets`, `fast_discover`, `masscan_discover`, `ping_sweep`, `arp_scan` | composes `RateLimiter`, `Semaphore` and `Subprocess` |
| `FramedExchange` | `read_framed`, `tcp_request`, `_s7_exchange` | component with its peer |
| `Probes` | the conversations of the probes: `udp_request`, SNMP, NTP, DNP3, SMB and those that ask once | component with device and network |
| `Identify` | `identify_services`, `apply_interlock`, the host loops of `identify`, `full` and `walk` | composes `RateLimiter` and `Semaphore` |
| `Scope` | `resolve_in_scope`, `_validate_network`, `validate_port` | pure operators |
| `WebScan` | `_scan_web_targets`, `WebScanner.scan` and `_safe_request`, directory enumeration | extends `Scope`; with servers and a resolver that do as they like |
| `Capture` | `PassiveInventory`, `sniff_for`, `analyze_pcap`, `load_pcap` | component with a capture that may break off |
| `AccessPoints` | `add_ap`, `assess_access_point`, `detect_evil_twins`, redaction | pure operators |
| `WifiTools` | what frames, `nmcli`, `iw`, `system_profiler` and wardriving exports make of an access point | pure operators |
| `Wireless` | the commands `wifi`, `ble`, `wardrive` and walk's wireless part | composes `WifiTools`, `AccessPoints` and `Subprocess` |
| `KevCatalog` | `KevCatalog.load` and its cache file | processes with crashes |
| `Matcher` | signature rules, version comparison, fixed checks, `prioritize`, risk level | pure operators |
| `Audit` | the phases of `scan`, `vuln`, `web`, `full`, `walk`, `cve`, `enrich`; NVD client, ranking, NSE processes, report files | composes `Matcher` and `Subprocess`; commands with crashes |
| `RateLimiterProofs`, `ScanNetworkProofs`, `FramedExchangeProofs`, `ProbesProofs`, `IdentifyProofs`, `DiscoverProofs`, `WebScanProofs`, `AuditProofs` | theorems | proofs |
| `MC*` | the values TLC gives the constants | model checking |

### Correspondence with the code

An **action** is one uninterrupted stretch of a coroutine, from one `await` that
suspends to the next: on an event loop that is what cannot be interrupted. The
code between two awaits is therefore one step even if it is long, and code with
an await in the middle (the limiter's sleep, a semaphore with no free slot, the
nmap thread, a socket read) is split there. Variables named like the code's
carry its meaning; variables marked *history* only record what happened for the
properties to talk about and guard nothing.

`RateLimiter`. `nextSlot` is `self._next`, `waiters` the FIFO queue of the
`asyncio.Lock`, `state` where each caller is. The lock is only held across the
sleep, so "somebody sleeps" is "the lock is held". `AcquireFree` (which covers the early
return without a limit) and `AcquireBusy` are the ways into `acquire`, `Granted`
the hand-over of the lock, `Wake` the end of a sleep. The two classes differ in one
line, which is `SlotFromPlan` and `SlotFromClock`. A timer never fires early and
may fire arbitrarily late: `Tick` does not wait for a sleeper that is due.

`Semaphore`. A released slot goes to the coroutine that waited longest; it owns
the slot from then on (`granted`) and runs later (`Resume`). A newcomer queues
behind both. This is CPython's class (3.11 and later) as `async with` uses it.

`ScanNetwork`. A unit is one nmap process, for an address or a block. Its
coroutine is in `throttle`, `waiting`, `running`, `done`, `collected`, or, after
the loop was closed, `cancelled` or `orphaned` (its nmap still runs in a
thread). `NmapExit` chooses the outcome freely, including an exception
`_scan_one` does not catch; that one makes the collecting loop raise
(`CollectException`), after which `asyncio.run` cancels the rest and joins the
threads (`CloseLoop`, `OrphanExit`). `Concurrency`, `NmapTiming`,
`NmapIntensity` and `NmapDetectsOS` are the code's expressions: the worker count
is decided on the requested ports, nmap's arguments on the ports left by the
scope.

`FramedExchange`. Bytes are counted, not stored. The replies are one stream, so
a late reply to request r is where the read for request r + 1 begins. `Complete`
is `frame_length`: exact where a frame starts, arbitrary where the reader is out
of step. `Rounds = 1` is `tcp_request`, `Rounds = 3` the S7 exchange with its
teardown in `finally`; the run has the latter, the proofs cover both. The peer sends any part of what it owes, stops, hangs up
or resets; a timeout or a cancellation strikes wherever a read is suspended.

`Identify`. The configuration says which command runs, what the scan found open
and what the scope allows; `Selected` and `Interlock` are the code's choice of
probes and profile. Each probe's coroutine passes the limiter, the semaphore and
the profile's delay, and ends with or without an exception. Hosts follow one
another, each with a fresh limiter, as in the code.

`Scope`. A scope is a record of sets; a CIDR block is the set of its addresses,
a list of domain patterns the set of the names it matches. `ResolveInScope` takes
what the resolver answered as an argument; no answer at all is the empty set.
`MayContact` is what a check promises of one connection; it models no code.

`WebScan`. `phase` is where the coroutine of a target is (`start` just before
`scan` is called for one of its URLs), `request` the calls of `_safe_request` it
has made: waiting for the check of its next hop (`hop`), connected (`open`), or
returned. Every check asks the resolver anew and `Answers` lists what it may say
each time; `pin` is the address the TLS checks use. `EndScan` is what `_one` does
when `scan` returns or raises: `RefuseUrl` (a `ScopeError`) and
`MalformedRedirect` (a `ValueError` from parsing a Location) leave the earlier
result in place and go on with the next URL. The enumeration runs its requests
side by side, inside the worker slot of its target. `reached` is
history. A Location that is no http URL, or carries credentials, is refused as
one out of scope is.

`KevCatalog`. Processes share one file. `Open` truncates it, `Write` writes one
of the feed's two blocks at the process's own position, so two writers tear or
mix it. `Crash` may come between any two steps, `WriteError` is the caught
`OSError`. Other JSON (an object without entries, a list) may come from the
server.

`Subprocess`. The child exits when it likes, also between the timeout and the
kill, which then finds no process; whoever started it must either `Collect` its
output or `Kill` and `Wait`.

`Discover`. `stage` is where the command is. The hosts of a range follow from
its size and IP version as `hosts()` gives them. One coroutine per host of the
current batch (`at`) passes the limiter, takes a slot of the semaphore for each
port and gives it back in between, which `NextPort` does in one stretch: the
loop leaves `async with` and meets it again without suspending, so it keeps the
slot only if nobody is before it. masscan and the ARP scan answer with any
addresses of the range.

`Probes`. A try is one call of `udp_request` or `tcp_request` with a socket of
its own: `opening`, `asked`, `done`. Tries are made at once (SNMP's communities
and versions), in turn until one answers (NTP, DNP3), or in turn and all (SMB's
dialects). `net` keeps every datagram the device ever sent, so it may arrive any
number of times and at any time, at whatever socket has the local port by then;
a stream stays with its connection. Byte layout is abstracted to whether the
parser accepts a reply. Timers are on time here, since the question is what the
probe promises within its timeouts.

`Capture`. One reader (`live`, `analyze` or `load`) folds each packet into the
inventory. A packet says which end the client is only through its ports, as on
the wire (`fromServer` is hidden from the code). `BreakOff` is an interface that
goes away or a torn file.

`AccessPoints`, `WifiTools`, `Wireless`. A radio is an access point as it is
configured; a sighting is a radio with a signal strength; a record is what the
parser of a source makes of it. What a tool prints of a radio is external, and so
is the `Wording` of an export, which may give the version of WPA
(`[WPA3-SAE-CCMP]`), the element (`[RSN-SAE-CCMP]`) or both. How the code reads it,
merges beacons (`Collect`) and rows (`Merge`), finalises a capture (`Finalized`),
looks for twins and redacts the report is its own. Tools are tried in the code's
order, each as a `Subprocess`.

`Matcher`, `Audit`. `phase` goes through the phases of the command in the code's
order (`Phases`, `Skipped`, `After`); port scan, web audit, identification and
wireless scan yield a result or raise (`Raise`). Commands run one after another
and share the NVD cache, one file per query, and the report directory; `Crash`
may come at any point, `CacheSaved` and `WriteFails` include a full disk.
`Publish` is the NVD changing an entry. A timestamp has a resolution at which
two reports can collide; files are created exclusively, so `Open` needs a free
name.

Abstractions: nmap's raw output, banners and device data are not kept; ports and
probes are a few representatives of each class; probabilities, wording and
output are left out. In `ScanNetwork`, `Discover` and `Identify` the scope
appears as allowed ports, rate and the hosts in scope.

## 3. What is checked

| Run | Shows | Bounds |
| --- | --- | --- |
| `RateLimiter` | `StartsAreCapped`, the refinement of `RateCap`, `EveryTaskPasses` (its types are part of those of the modules that use it) | 4 callers, 2 ticks per interval |
| `ScanNetwork` | types, `OTSafe`, `SlotsConserved`, `RateHonoured`, `ScanEnds` | 3 units, 8 configurations, 1 or 2 workers, 2 ticks per interval |
| `Discover` | types, `SweepComplete`, `SweepBounded` | ranges of 1 to 8 addresses, batches of 2, 1 or 2 connections, a limit of 3 targets |
| `FramedExchange` | types, `SlotReleased`, `InStep`, `ProbeEnds` | three frames of 5 bytes, any segmentation |
| `Probes` | types (with the time budget and the sockets), `ProbeHonest` | 6 kinds of probe, 3 local ports |
| `Identify` | types, `Interlocked`, `OTPaced`, `IdentificationEnds` | 13 configurations, 2 hosts, 5 probes, 3 ticks per interval |
| `WebScan` | types, `OnlyAuthorised`, `ReachedIsReported`, `NothingLeftOpen`, `WebAuditEnds` | 3 targets, 2 workers, 3 paths, 2 redirects, 3 scopes |
| `Capture` | types, `InventoryAgrees`, `SecretsAttributed` | 14 packets, captures of up to 3 |
| `Wireless` | types, `InventoryFaithful`, `VerdictAgrees`, `ScanEnds` | 11 radios, 3 signal strengths, 3 wordings of an export, 2 sightings, 2 data frames, 9 command lines |
| `KevCatalog` | types, `Current`, `DownloadCounts` | 2 processes, 3 loads, 3 hours |
| `Audit` | types, `ReportAgrees`, `LookupsHonest`, `ReportsKept` | 2 commands in a row out of 8, 2 hosts, 2 queries, 2 timestamps, 1 change |
| `IdentifyPorts` | that `OnlyListedPorts` is violated | 1 configuration |

`MCAudit` also checks, as an assumption (`VersionsCompare`), the code's version
comparison against the order of numbers in a positional system, for all pairs of
versions of up to three parts.

Why the bounds are enough. Four limiter callers give a sleeper, a queue of two
and a newcomer; two ticks per interval let a timer be late by less than, exactly
and more than an interval. `_StartRateLimiter` runs inside `Discover` and
`Identify`; `SweepBounded` contains its stricter promise, across batches. Three
units over one worker give a queue of two, and a woken waiter that has not
resumed together with a newcomer, the case in which a slot could be lost; over
two workers they give two nmap processes that end in either order. In
`Discover`, ranges of one, two and four addresses differ in how many of them are
hosts, over IPv4 and IPv6; three hosts in batches of two give a full batch and a
rest; two hosts over one connection make a host queue again between its ports.

Frames of five bytes with a two-byte header distinguish a
buffer shorter than the header, shorter than the confirm, shorter than the frame
and as long as the frame; three rounds let an answer be late by one and by two
reads. Three local ports are enough for three tries at once, and for a port to
be reused after one try and after two. The probes of `MCIdentify` are one of each
kind the selection tells apart: an industrial one over TCP and UDP on one port,
an industrial one over TCP, an IoT one and an intrusive one.

The targets of `WebScan` are a name with an
https and an http URL, an address with one URL and an excluded address; the name
may resolve to nothing, to an authorised address, or to that and one that is
not, and the three answers occur in any order, so that a check and the use after
it can see different ones. Two redirects are the fewest that can lead out of
scope and back, or end in the limit; the third target and the third path queue
for a slot.

Two sightings are what a merge takes: of the same radio, of one that changed its
settings or hid its name, or of two that share a name; in an export the two may be
worded differently. Two data frames are a
client and the frame to everyone that must not be taken for one. Three packets reach a host
from two sides and change its address in between; among the fourteen kinds are
one from a host to itself and a header that a service without a detector sends back. Two blocks make a torn file possible,
two processes a mixed one, and a freshness of two hours in a run of three an
expired one. Two commands in a row are what a stale or torn file takes, and what
two reports with one timestamp take. `Horizon` bounds idle time only: a clock
that still has a sleeper to wake goes on.

Fairness. Safety runs assume none. The liveness runs assume weak fairness of
each coroutine's next step, of the main coroutine and of the clock: asyncio runs
ready callbacks in FIFO order, timers expire, and `nm.scan` and every read has a
timeout after which it ends. Nothing is assumed of a peer, of the server, or of
how nmap ends. In `WebScan`, weak fairness of each target's coroutine suffices:
connects, handshakes and reads time out, and redirects are counted. The fairness
of `FramedExchange` does not contain `Deliver`, `HangUp` or `Cancel`, that of
`Wireless` neither a tool's exit nor a sighting.

Deadlock is checked wherever the modelled part is a program that ends: a
terminal state has an explicit step (`Finished`, `Ended`, `Done` or `Over`).
`KevCatalog` alone may stop (its loads are bounded), and its configuration says so.

### Disagreements between the code and what it says

One has a run that TLC must find violated; `PROJECT.json` quotes the lines:
`IdentifyPorts` refutes "only the listed ports are scanned"
(`config/example-scope.yaml:20`), because `identify` passes the UDP ports
unfiltered. The models show more, which have no run of their own; each can be
followed in the module named.

Network and probes:

* `_RateLimiter` lets one start too many into a window when a timer is late
  (`engine.py:32` promises a cap per second): the `Slack` of 1 in `RateCap`.
* "Max host-scans initiated per second" (`config/example-scope.yaml:22`): the
  rate is paid before the worker is waited for, so starts bunch up (`ScanNetwork`,
  `PassThrottle` and then `waiting`). What does hold is that they never get ahead
  of the rate (`RateHonoured`): the k-th comes k - 1 intervals after the scan
  begins, or later.
* "Read until `frame_length` is satisfied, EOF, or `timeout` expires"
  (`protocols/base.py:93`): a first segment shorter than the length prefix ends
  the read (`FramedExchange`).
* A reply that comes after its read has timed out is taken for the answer to the
  next request: `InStep` speaks of exchanges in which every read was whole, and of
  no other (`FramedExchange`).
* Each link address of DNP3 gets "an equal slice of `timeout` so the whole sweep
  stays inside the caller's budget" (`ot.py:606-607`): a try takes up to two
  slices, one for the connection and one for the reply. This is the factor 2 of
  `Budget` in `Probes`. SNMP and NTP take any datagram that reaches the socket
  for the answer; for NTP's monlist any reply at all counts (`any`).
* "OT-aware safety interlock" (the repository's `README.md:202`): `full` and
  `walk` probe industrial UDP ports under the profile that the open TCP ports
  gave, the IT profile if none was industrial (`Identify`; `Interlocked` is
  therefore about TCP).
* The IoT profile's `scan_delay`, "seconds between probes to one target"
  (`profiles.py:48`), is slept by up to ten workers side by side; only under the
  OT profile, with its single worker, does it space the probes, which is what
  `OTPaced` states.
* A client's own port is an industrial port to `add_observation` if it happens
  to be 44818 or 47808, both in the ephemeral range: `Capture` has such packets,
  and `InventoryAgrees` speaks of the ports others sent to, not of services.
* "Orient the record at the server" (`pcap.py:131`): only the ports of the
  detectors tell the server, so a Basic header that a web server sends back (as
  TRACE does) is reported under the client's address and port (`Echoed` of
  `Capture`; `SecretsAttributed` says so and holds everything else to the server).
* `discover` of a name finds nothing with a ping sweep, and with `arp` or `both`
  raises `ValueError`; without root, `both` raises in the ARP scan and loses the
  ping sweep's hosts (`ArpScan` of `Discover`).

Web, vulnerability data and reports:

* "No response — host down or port closed." (`cli.py:1808`) is also shown for a
  server that redirects out of scope, or once too often (`WebScan`).
* "Max concurrent requests" (`cli.py:485`) bounds the targets scanned at a time,
  and again the paths of each, so a deep audit has up to its square under way:
  `Begin` and `StartDir` of `WebScan` each have the bound. `MalformedRedirect`
  loses the target's result, a certificate already fetched included.
* `KevCatalog.load` "never raises" (`enrich.py:169`): a JSON list raises, and is
  cached; through it `enrich_cves`, "never raises" as well (`enrich.py:272`).
  `_write_cache` empties the cache before it writes it (`enrich.py:210`), so an
  interrupted write destroys the copy that a load without network "falls back
  to": in `KevCatalog`, `Open` followed by `Crash`.
* The NVD cache never expires: an empty answer to a keyword is kept for ever.
  `_request_nvd` sleeps after its last attempt too, and a body that is no JSON
  raises through it. An NVD entry without CVSS version 3 replaces a rule's score
  by 0, so that one CVE on two hosts can show two scores (`Apply` of `Audit`).
* `vuln` computes priorities and leaves them out of its report (`BuildReport`).
* `run_nse` parses nmap's output outside the handler around the run, so XML that
  is refused ends the command (`Raise` of `Audit`).

Wireless and captures:

* Reports "redact by default" (the repository's `README.md:234`): `walk` has no
  redaction at all (`Report` of `Wireless`).
* `scan_wifi` returns "partial results on any error" (`wifi.py:109-110`): a
  capture that raises loses its access points (`CaptureFails`).
* `load_pcap` "never raises" (`pcap.py:87`): its loop over the packets has no
  handler, and a torn file raises there (`BreakOff` of `Capture`).
* Two sources disagree with the others on a network. An export that names the RSN
  element makes WPA3 alone, `[RSN-SAE-CCMP]`, the mixed network `wpa2/wpa3`, since
  `_classify_security` counts "RSN" as WPA2 (`wigle.py:245`; exports of that form are in
  `tests/test_wigle.py:182`); and macOS has no word for Enhanced Open, which is shown
  as open. `ShownAs` and `VerdictAgrees` state both exceptions.
* A capture keeps the encryption of the first beacon, "open" included
  (`wifi.py:192-198`), while `add_ap` lets a row that is encrypted replace one that is
  open (`base.py:148-149`). These are the two cases of `MergedOf`.
* The frame parser shows only the RSN element's ciphers, so TKIP offered beside
  WPA2 goes unreported, which the other tools report (`VerdictAgrees` says which
  source is held to what); and `add_ap` merges encryption apart from ciphers and
  key management, so a merged record can mix two settings (`Merge`).

## 4. What is proved

`RateLimiterProofs`, for every set of tasks, interval, timer lateness and length
of run (assumption: `RateLimiterAssumption`, the types of the constants):

* `TypeCorrectness`: `Spec => []TypeOK`;
* `RateIsCapped`: `Spec => []StartsAreCapped`;
* `Refinement`: `Spec => ImplementsRateCap`, step by step.

The cap is not inductive: nothing in it says where the next start may fall. The
strengthening says, for every past start, how far `nextSlot` is ahead of it, and
that a sleeper wakes no earlier than `nextSlot`; with `SlotFromPlan` the last
start may itself be up to an interval late, which is where `Slack` comes from.

`ScanNetworkProofs`, for every finite set of units, every port set and
configuration and every rate (assumption: `ScanNetworkAssumption`):

* `TypeCorrectness`: `Spec => []TypeOK`;
* `SlotsAreConserved`: `Spec => []SlotsConserved`;
* `OTIsSafe`: `Spec => []OTSafe`;
* `LimiterIsUsed`: `Spec => Limiter!Spec`, where `Limiter` is `RateLimiterProofs`
  with the units as its tasks;
* `RateIsHonoured`: `Spec => []RateHonoured`.

That slots are conserved is not inductive: a wake-up could hand a slot to a unit
that has one, or twice to the same unit. `IInv` adds that the queue has no
duplicates (`QueueInv`), that whoever is queued or woken is still waiting, and
that units in the collecting queue are through (`CompletedInv`), so collecting
one ends no running nmap. The heart is `WakeBalance`: k distinct units taken
from the queue are k new owners, for the k slots they get. While the loop runs,
owners and free slots then add up to the worker count; once it is closed no unit
starts, so there are never more nmap processes than workers (`FewRunning`).
`OTSafe` follows because both conditions that make nmap gentle make the worker
count one: the ports left by the scope are among those requested.

`LimiterIsUsed` is the composition made explicit: every step of the scan is a
step of the limiter or leaves it alone, so what `RateLimiterProofs` proves
(`Limiter!Invariance`) holds in the scan and need not be proved again.
`RateHonoured` then takes `PaidInv`: the k-th pass of the limiter is not early
and the next slot is as late as the next start is due; and because everyone who
started or waits for a worker has a pass of its own (starts and waiters together
are at most the passes), the k-th start comes after the k-th pass, whichever unit
it belongs to. Cancelled waiters leave a pass unused, which only makes starts later.

`FramedExchangeProofs`, for every number of requests and every frame layout, a
single request included (assumption: `FramedExchangeAssumption`):

* `TypeCorrectness`: `Spec => []TypeOK`;
* `ConnectionIsGivenBack`: `Spec => []SlotReleased`;
* `RepliesAreMatched`: `Spec => []InStep`.

That a connection is given back depends on how far the exchange got: `Progress`
ties the round to the replies read so far, says that the connection is confirmed
exactly from the second round on, and that nothing is torn down before the
exchange is over.

`ProbesProofs`, for every kind of probe with any number of tries and any
timeouts, and every finite set of ports (assumption: `ProbesAssumption`):

* `TypeCorrectness`: `Spec => []TypeOK`, which contains that a probe is over
  within its budget and that sockets have ports of their own;
* `ReportsAreHonest`: `Spec => []ProbeHonest`.

Two strengthenings carry them. Everything a socket received can be traced to a
try that was sent from the same port (`Traced`). Tries made in turn have a
frontier: those before it are done, those after it pending, and the clock is at
most two slices per try of the frontier on (`Current`, `Due`), which adds up to
the budget.

`IdentifyProofs`, for every set of hosts, ports and probes and every
configuration (assumption: `IdentifyAssumption`):

* `TypeCorrectness`: `Spec => []TypeOK`;
* `InterlockHolds`: `Spec => []Interlocked`;
* `OTIsPaced`: `Spec => []OTPaced`.

The interlock speaks of requests that were sent. The invariant adds that whatever
probe of a host is on its way through limiter and semaphore is one the selection
took, and that each request sent had the profile the interlock gave (`Chosen`).
The pace is not inductive by itself, since the delay is slept in the worker and
the limiter grants starts to several coroutines. `SlotsInv` says that free slots
and owners add up to the profile's workers, so under the OT profile there is one
owner (`OneOwner`); `PaceInv` that the delay this owner sleeps ends no earlier
than the delay after the last request, whichever probe sent that.

`DiscoverProofs`, for every set of addresses and command lines, every batch size,
connection limit and rate (assumption: `DiscoverAssumption`: the types, a finite
set of addresses, and that it holds the ranges of the command lines):

* `TypeCorrectness`: `Spec => []TypeOK`;
* `SweepIsComplete`: `Spec => []SweepComplete`;
* `SweepIsBounded`: `Spec => []SweepBounded`.

The limit on open connects is inductive only together with who else holds a slot
(`SemInv`): a host between two ports may keep its slot, or give it to the first
of the queue and queue last, and in each case free slots, woken hosts and open
connects add up to the limit. `HostInv` orders the hosts by their rank: those of
past batches are done, those of later ones not begun, and a host of the current
one goes on until it answers or has no port left. From it and `StageInv` the
completeness follows when the last batch is over. `RateInv` says that the next
start is an interval after every past one.

`WebScanProofs`, for every scope, every set of targets, URLs and paths, every
behaviour of the resolver and the servers, and any number of workers and
redirects (assumption: `WebScanAssumption`, the types of the constants, and that
names, addresses and request names are told apart):

* `TypeCorrectness`: `Spec => []TypeOK`;
* `ConnectionsAreAuthorised`: `Spec => []OnlyAuthorised`;
* `ReachabilityIsReported`: `Spec => []ReachedIsReported`;
* `RequestsAreOver`: `Spec => []NothingLeftOpen`;
* `NetworkIsAuthorised`: each address of a block that `_validate_network` accepts
  would be accepted on its own.

A connection is authorised because the address it goes to is one of those that
were checked (`ResolvedIsAuthorised`) and nothing changes it afterwards; the
phases with TLS need the same of the pin (`Authorised`). `InFlightInv` says which
phase a request under way belongs to: with it a scan that leaves its phase leaves
nothing open. `ReachInv` says phase by phase what has been learnt of the server,
and that a scan goes on to another URL only while nothing has. Four lemmas, for
a step of the scan, its end, a new request and a step of a request, carry all actions.

`AuditProofs`, for every set of hosts and services, rules, NVD scores, web pages
and timestamps, every list of commands and any number of them in a row
(assumption: `AuditAssumption`: the types; that the sets a command works on are
finite; that only `cve` and `enrich` take items and only the others write
reports; that a rule's CVE is one that `get_cve` may be asked for):

* `TypeCorrectness`: `Spec => []TypeOK`;
* `ReportsAgree`: `Spec => []ReportAgrees`;
* `LookupsAreHonest`: `Spec => LookupsHonest`;
* `ReportsAreKept`: `Spec => ReportsKept`.

A report is made from what earlier phases left behind, so the invariant follows
the phases. `PlanInv` places a command in its order of phases (`OrderFacts` reads
the seven orders once: a command matches only right after its scan, ranks after
all lookups, and reports last). `FindingsInv`: each finding is one of its host's
and each of the host's is there, up to the score (`Same`); a lookup may replace
that, by an answer which `NvdInv` traces to what the NVD has published, through the
cache file too. `RankInv`: no ranks exist before the lookups are over, so no row
can hold a score that is replaced later. `ReportInv`: each file a command claims
is its own, whole, and nobody else's, because files are created exclusively. That
the severities add up to the total is a count over a set of unknown size: the
findings of five severities are disjoint and so are those of the pages
(`CountBySeverity`, `DisjointUnion`); that a CVE has a highest score follows from
the well-foundedness of the naturals (`HighestFacts`).

The last part of `AuditProofs` is about `KevCatalog`, for every number of
processes, loads and hours and every age limit (hypothesis of the theorems:
`KevCatalogAssumption`, which TLC evaluates in the run of that module):

* `CatalogIsCurrent`: `Spec => Current`;
* `DownloadsCount`: `Spec => DownloadCounts`;
* `CatalogTypes`: `Spec => []TypeOK`.

Freshness is the file's time, and a torn write sets it too. That no outdated
edition passes as current rests on `FileInv`: as long as the file is not empty,
one of its blocks was current when it was written last, because the last write
either emptied it or wrote a block that was downloaded in the same hour; and a
document that decodes has all its blocks alike.

The second half of `DiscoverProofs` is about `Capture`, for every set of packets
and captures of any length (hypothesis of the theorems: `CaptureAssumption`, the
types of the packets and that a client's own port is none of the detectors';
TLC evaluates it in the run of that module):

* `CaptureTypeCorrectness`: `Spec => []TypeOK`;
* `InventoriesAgree`: `Spec => []InventoryAgrees`;
* `SecretsAreAttributed`: `Spec => []SecretsAttributed`.

`CaptureInv` says of every address what the inventory would give for it, whether
it is listed or not (`Agreed`); one packet changes the records of two addresses,
one after the other, and where both are the same host the second change builds on
the first. The latest hardware address is named by its place in the history
(`Latest`), which one more packet moves or leaves. This proof found two mistakes in
the formulas as they were first checked: the address of a host that talks to itself when
only one end tells it, and the echoed header above. Both now are among the
packets of the run.

The second half of `WebScanProofs` is about `Wireless`, for every set of access
points, stations, signals and BLE devices, every machine and command line, and any
number of sightings and data frames (hypothesis of the theorems:
`WirelessAssumption`: the modes and frequencies of the access points, that each has
an address, and that only root captures in monitor mode; TLC evaluates it in the run):

* `WirelessTypeCorrectness`: `Spec => []TypeOK`;
* `InventoriesAreFaithful`: `Spec => []InventoryFaithful`;
* `EverySourceAgrees`: `Spec => []VerdictAgrees`.

The argument has four parts. `Truthful` is what the parser of each of the seven sources always
gets right of an access point, over all modes and frequencies (`FrameIsTruthful`
and its like, one lemma per parser); for an export it is so in each wording, with the
name `ShownAs` gives. `FirstOf` and `Strongest` say from which sighting
an entry has each of its values, so that one more sighting changes nothing or is
itself the one named; a capture fills its entries by other rules than a tool or an
import (`Collected`, `Merged`), and which rules hold is read off the history
(`Live`). The third part is `detect_evil_twins`: `HoldsAssessed` before it and
`HoldsNoted` after it, where an entry must carry its own key, or two of a name
might be one of them twice. The last is the report, which leaves the inventory as
it was: `RedactedFacts` and `MaskedFacts` say what redaction removes of a record
and what it keeps (`ReportShows`). `VerdictAgrees` follows because an access point that
was always seen with the same settings has each of its values from a sighting with
those settings, and an entry whose first row is open was open in every row
(`OpenFacts`). This proof, too, changed the model: conditions that overlapped in a CASE
are disjoint now, data frames go between any two addresses, and an access point
is a client of another if they exchange frames.

What is proved of one component sits in the proof module of another only to keep
their number small: `WebScanProofs`, `DiscoverProofs` and `AuditProofs` each name an
instance of the second component (`Wifi`, `Passive`, `Kev`), whose variables
and constants have nothing to do with those of the first.

Every safety invariant and every action property that a passing run checks is
proved.
Only model-checked: liveness (`EveryTaskPasses`, `ScanEnds` of `ScanNetwork` and of
`Wireless`, `ProbeEnds`, `IdentificationEnds`, `WebAuditEnds`), which is out of
the prover's reach together with ENABLED, and that the code's version comparison is
the order of numbers for versions of any length (`VersionsCompare`), which needs an
induction over data.

## 5. Plan

What could still be added, the most consequential first:

1. Scan targets: the expansion and merging of the targets of `scan_network`
   (overlapping blocks), over `Scope`; `scan_host`.
2. Names in `Identify` and in the NSE checks of `Audit`: validated once and
   resolved again by the probe, with the resolver `WebScan` has.
3. The cookie jar that concurrent scans of `WebScan` share.

Each of these comes with its theorem: what is modelled now is proved, liveness
apart.

Not modelled, and not planned: parsing of nmap XML, HTML, certificates, packet
bytes and the syntax of wardriving files; regular expressions; report templates;
tables and prompts of the command line; logging and hashing. They are pure
functions of unbounded data and a test reaches them well. `grab_banners` is
called by no command.
