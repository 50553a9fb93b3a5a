# TLA+ models of mxe

This directory holds TLA+ models of the mxe methylation server and its tools,
the TLC configurations that check them, and `PROJECT.json`, which lists the
components, the runs, the mutants, the map from every definition to the
source lines it models, the findings and the hazards.

## The system

mxe answers queries about methylation levels.

- **Lookup client** (`src/unnamed/part_003`, `mc16_client`, `lookup_client_main`).
  The client turns a file of genomic intervals into CpG offset pairs. It then
  runs one transaction on a single-threaded `io_context`:
  resolve → connect → write (request header + offsets) → read the response
  header → read the counts.
  A `steady_timer` deadline watches each stage. `check_deadline` closes the
  socket once the deadline has passed.
- **Server connection** (`src/src/connection.cpp`, `struct connection`). The
  server runs one chain of completion handlers per accepted socket:
  `read_request` → `read_offsets` (possibly several partial reads) →
  `respond_with_header` → `respond_with_counts`. On errors the chain goes to
  `respond_with_error`. The `shared_from_this` captures keep the connection
  alive while a handler is pending. The socket closes when the last handler
  returns.
- **Request handler** (`request_handler`, not under `src/`). It decides the
  response status from the header (unknown accession, methylome size
  mismatch). It also computes the counts from the offsets (invalid offsets).
  It uses a cache of loaded methylomes (`methylome_set`, also not under
  `src/`).
- **Server startup** (`lookup_server_main`, `command_server_main`). These parse
  options, create the logger, then create `server` and call `run()`. The
  server's constructor builds a `cpg_index_set` from the index directory.
  With `--make-config F`, `command_server_main` instead writes its options
  to F (`write_config_file` and `format_as_config` in
  `config_file_utils.hpp`) and returns; `-c F` reads them back.
- **Index command** (`command_index_main` in `lookup_server.cpp`). It builds
  an index from a genome and writes the index file and then its metadata
  file. The server later reads these files from the index directory.
- **Offline tools**:
  - `bins` (`src/src/bins.cpp`) sums counts per fixed-size bin.
  - Output writers (`genomic_interval_output.hpp`): `write_bins` and
    `write_intervals` (which the lookup client uses for its output file)
    write the counts one line per bin or interval, and
    their bedgraph variants write a score in place of the counts.
  - Request codec (`request.cpp`).
  - `download` (`download.cpp`, a Beast coroutine over resolve, connect,
    write, read, shutdown).
  - zlib adapter (`zlib_adapter.hpp`): `compress` and `decompress` over
    one zlib stream each. It is linked into the executable and has its own
    unit test.
  - Logger.
  - `cpg_index_set` (`src/unnamed/part_000`), which loads every index in a
    directory.
- **Methylome cache** (`methylome_set`, not under `src/`): an LRU of loaded
  methylomes shared by all connections, with single-flight loads (spec 4.3).

The client and the server connection interact only through one TCP socket.
Bytes arrive in order. A read may return fewer bytes than asked. The network
may reset the connection or go silent. A close with unread data makes the
kernel send RST.

## Modules

| Module | Models | State | Actions |
|---|---|---|---|
| `RequestHandler` | `handle_header`, `handle_get_counts` (modelled from the spec, not under `src/`) | none | operators `HandleHeader`, `HandleGetCounts` |
| `Connection` | `struct connection` and its handlers | `stage` (the outstanding operation), `conn_req`, `resp_hdr`, `offset_remaining`, `offset_byte`, `resp`; history `verdict` and `sent` | `Accept` (`start`), `ReadRequestDone`, `ReadOffsetsDone` (partial reads, with `GotAllOffsets` calling the handler and `respond_with_header`, which shuts the socket if `to_chars` of the header fails), `WriteHeaderDone` (→ `respond_with_counts`), `WriteLastDone` |
| `LookupClient` | `struct mc16_client` | `client_op`, `status`, `deadline` (armed / expired / max), `deadline_wait` (waiting / fired / none), `sock`, `counts`, `req` | `HandleResolve`, `HandleConnect`, `HandleWriteRequest`, `HandleReadResponseHeader` (with `do_read_counts`), `DoFinish`, `CheckDeadline`, `Tick` (the clock passing an armed expiry) |
| `Session` | one query end to end: both modules over one socket | socket: `c2s`, `s2c` (items in flight), `c2s_eof`, `s2c_eof`, `net` (up / reset / partitioned), `link` | `ServerStep`, `ClientStep`, `NetFail` |
| `MCSession` | constants for TLC | | |
| `Bins` | `bins_main` and `bin_counts` (`bins.cpp`) | `pc`, `index`, `cpgs`, `bin_size`, `ch`, `i`, `posn` (position cursor), `cpg` (record cursor), `results` | `ReadIndex`, `ReadMethylome`, `OpenOutput` (each may end the program), `NextChrom` (the zip over chromosomes), `BinStep` (one iteration of the bin loop with `bin_counts`), `PrintResults` |
| `MCBins` | three indexes (S1 of the spec, one without CpGs, one with CpGs at bin edges) | | |
| `Download` | `download()` and the coroutine `do_download` (`download.cpp`) | `pc`, `outdir`, `file` (absent / old / empty / partial / complete), `ec`, `header`, `result`, `received` | `CheckOutdir`, `TestWrite`, `RemoveTest`, `OpenBody`, `AsyncStep` (resolve, connect, write), `ReceiveBody`, `ReadResponse`, `Shutdown`, `FillHeader`, `AfterRun` |
| `CpgIndexSet` | the `cpg_index_set` constructor and lookups (`src/unnamed/part_000`) | `name`, `idx_ok`, `meta_ok` (the directory), `pending` (entries not yet iterated), `index`, `meta` (the two maps), `pc` | `VisitEntry` (one loop iteration, in any directory order), `EndOfDirectory`; lookups `GetCpgIndexMeta`, `GetCpgIndexWithMeta` as operators |
| `GenomicIntervalOutput` | `write_bins` of `genomic_interval_output.hpp` | none | operator `WriteBins` (its own bin loop and `results_itr`), with a stream that may fail at a given write |
| `ZlibAdapter` | `compress`, `decompress` (`zlib_adapter.hpp`) | `fn`, `input` (the compressed data against the size of `out`), `ndebug`, `zpc`, `strm` (none / allocated / freed), `filled`, `result` | `DeflateInit`, `Deflate`, `DeflateEnd`, `InflateInit`, `Inflate` (with its `inflateEnd` for three codes), `InflateEnd`; zlib's return codes are the ones its manual gives for each call and stream |
| `MCZlibAdapter` | every kind of compressed input: exact fit, shorter, longer, truncated, corrupt, needing a dictionary | | |
| `IndexCommand` | `command_index_main` | per file: `ipc`, `iexit`, `idx_file`, `meta_file` (absent / partial / ok) | `Start` (parsing to index construction, with every early exit), `WriteIndex`, `WriteMeta` |
| `ServerMain` | `command_server_main`, `lookup_server_main` | `spc`, `sexit`, `daemon`; reads `set_pc` | `Launch`, `LookupServerMain`, `Constructed` (the rest of the constructor, with the daemon and non-daemon handling of `ec`) |
| `Deployment` | index commands and one server sharing the index directory | the three modules' variables; history `scan_from` | `IndexStep`, `ServerLaunch`, `ScanStep` (a `CpgIndexSet` step while the server constructs), `ServerConstructed` |
| `ServerConfig` | `--make-config` and `-c` of `xfrase server` (`server_argset`, `format_as_config`, `write_config_file`) | `made`, `mexit` (the `--make-config` run), `file` (present, and its lines as key and value), `sargs`, `sexit` (the `-c` run) | `MakeConfig` (with `WriteConfigFile`: written, open failed, or print failed after some lines), `StartFromConfig` (the file read with the options of `set_common_opts_impl`, their defaults and required flags); a name is a sequence of word and separator tokens, so `ConfigKey` replaces `_` by `-` as the code does |
| `MCServerConfig` | eight argsets: with and without a log file, one or four threads, with and without `-d` | | |
| `MCDeployment` | three index files: `hg38.cpg_idx`, `hg38-.cpg_idx` (also yields hg38) and a third, `mm39.cpg_idx` (`MCYieldOfMatched`) or `h.cpg_idx` (`MCYieldOf`, rejected by the server's pattern) | | |
| `LruCache` | the contract of the methylome cache (spec 4.3), every get atomic | `lru`, `held` | `Hit`, `Insert`, `Evict`, `Release` |
| `MethylomeSet` | `methylome_set` (not under `src/`, from spec 4.3 and 5) | `state` per accession (absent / loading / resident), `lru`, `pins` (handles plus waiters), per thread `tpc`, `want`, `held`; history `gets` | `Get`, `Retry`, `LoadDone`, `Wake`, `Release`, `Timeout`; refines `LruCache` |

Every handler is one atomic action. Each end has at most one operation
outstanding, and asio runs a connection's handlers one at a time. The steps
of the two ends interleave freely.

Data is abstracted:

- A request is a record of its form (well-formed, bad header, bad body,
  uncomposable), accession, size (match / mismatch), offsets (valid /
  invalid) and `n_intervals`.
- The wire carries one item per request header, per offset pair, per
  response header and per counts payload.
- The counts are a record naming the accession and the number of offsets
  they were computed from.

That is enough to tell a correct response from a truncated or misattributed
one.

`respond_with_error` parses `resp_buf`, a buffer that nothing has written
(see finding 1). What it sends is therefore a choice over `StaleDecodes`:
either a parse failure, which leads to a shutdown, or the buffer's initial
contents, which decode to `ok`.

## Runs

All runs use `MCSession` with one known accession (`acc1`). The requests
cover:

- valid requests with 0 and 2 offset pairs;
- an unknown accession;
- a size mismatch;
- invalid offsets;
- a bad header;
- a bad body;
- in some runs, a request the client cannot compose.

| Run | Cfg | Expect | Shows |
|---|---|---|---|
| session | `MCSession.cfg` | pass | `TypeOK`. `ClientResultCorrect`: a client that reports success holds counts for its accession over all its offsets. `ClientRequestCompletes`: every transaction ends. `ServerClosesSentRequests`: when the peer can send its whole request, the server always closes the connection, with resets and deadline closes. All hold with every request, the uncomposable one included. |
| error_lost | `MCSession_error_lost.cfg` | violation | `ErrorReported`: the handler's error status never reaches the client (finding 1). |
| client_hang | `MCSession_client_hang.cfg` | violation | `ClientIoDrains`: after the transaction, `check_deadline` keeps a wait pending forever (finding 2). |
| partition | `MCSession_partition.cfg` | violation | `ClientRequestCompletes` with silent partitions: the deadline watcher can die during resolve, and a partition after the server has the whole request leaves the client's header read pending (finding 3). A connect under a partition times out and is not a hang. |
| idle_peer | `MCSession_idle_peer.cfg` | violation | `ServerConnectionCloses` with a peer that never sends: the server has no read timeout (finding 4). |

Each property of a passing run has a mutant in `PROJECT.json`. TLC catches
each mutant:

- an offset count one short breaks `TypeOK`;
- `do_finish` not recording the read error breaks `ClientResultCorrect`;
- an offset count one too many (the server waits for a pair that never
  comes) breaks `ClientRequestCompletes`;
- the client writing the header without the offsets buffer breaks
  `ServerClosesSentRequests`.

### The other components

| Run | Module | Expect | Shows |
|---|---|---|---|
| bins | `MCBins.cfg` | pass | `TypeOK`. `BinsCorrect`: while walking, the results are a prefix of the reference bins (ceil(S/B) per chromosome, exact sums); at the end they are all of them. `WriteBinsConsumesResults`: `write_bins`, given those results, walks its own copy of the bin loop and reads exactly them: it never dereferences past the end, its final assertion holds, and a stream failing at write f leaves the first f-1 reference lines. Bin sizes 1, 3, 4 and 9 against chromosomes of 2 to 8 bases. |
| config_roundtrip | `MCServerConfig_roundtrip.cfg` | violation | `ConfigRoundTrip`: a file `--make-config` wrote without error, read back with `-c`, fails to parse or starts the server with other settings (finding 5). |
| zlib_leak | `MCZlibAdapter_leak.cfg` | violation | `StreamReleased`: after a successful `inflateInit`, input that needs more room than `out` has, or that ends early, makes `inflate` return `Z_BUF_ERROR`; `decompress` returns `z_buf_error` without `inflateEnd` (finding 6). |
| download_not_connected | `MCDownload_not_connected.cfg` | violation | `TransferredReportsSuccess`: a complete download whose shutdown reports `not_connected` is returned as an error (finding 7). |
| deployment | `MCDeployment.cfg` | pass | Three index commands and one server in any order, each write failing or not. `LoadAllOrNothing`: a scan that starts after the commands have returned gives an empty set when any matching file is unreadable and otherwise every named assembly, in every directory order. `LookupsAgree`: the two lookups succeed for the same assemblies and pair each index with the metadata of the same file, even when two file names yield one assembly, and even for scans that overlap a write. `ServesWhatWasIndexed`: when every index command returned `EXIT_SUCCESS` before the scan, the server serves exactly the assemblies of the written files (here every file name is one the server's pattern matches). |
| deployment_unmatched | `MCDeployment_unmatched.cfg` | violation | `ServesWhatWasIndexed` with the third file named `h.cpg_idx`: `xfrase index` writes it and exits 0, and the server's scan skips it (finding 8). |
| methylome_set | `MCMethylomeSet.cfg` | pass | `SingleFlight` (spec property 8), `WaitersServed` (a waiter is served without its own timeout) and `Refines`: `MethylomeSet` implements `LruCache` under the mapping that keeps `lru` and `held`, so at most N entries are resident and no entry with a handle is evicted. |

Each of these passing properties has a mutant that TLC catches:

- `bin_counts` consuming the position equal to `bin_end` breaks `BinsCorrect`;
- the record cursor starting one past the chromosome's offset breaks `TypeOK`;
- `write_bins` looping while `bin_beg <= chrom_size` breaks
  `WriteBinsConsumesResults`;
- an index command that logs a failed index write and goes on to the
  metadata breaks `ServesWhatWasIndexed`;
- a failed read that clears the maps and continues breaks `LoadAllOrNothing`;
- a failed read that clears only the index map breaks `LookupsAgree`;
- a get that does not see the load in progress breaks `SingleFlight`;
- a waiter that does not pin the entry breaks `WaitersServed`;
- a victim chosen without regard to pins breaks `Refines`.

`Download` has no passing run. The coroutine is a straight line of steps
that each succeed or fail, which gives about 40 states. Its one run shows the
`not_connected` result.

### Bounds

- Up to two offset pairs are enough for partial reads of every split (1+1, 2)
  and for the zero-length read.
- The network fails at most once. A second failure would change nothing,
  because after a reset or partition nothing else is delivered.
- The deadline is abstracted to armed / expired / max, which covers every
  order of the timer against each stage.

Every Session run finishes in seconds with about 2,000 distinct states.

- Bins: chromosomes of 2 to 8 bases with 0 to 3 CpGs. The bin sizes reach a
  CpG on a bin edge, a last partial bin, a bin larger than the chromosome and
  a chromosome without CpGs. `W = 5` keeps every sum below the wrap. `BinsCorrect` compares
  the W-bit sums with exact ones, so counts that reach 2^W in one bin (six
  CpGs of count 3 at W = 4) violate it. That is the scale of more than 65537
  fully covered CpGs in one bin with `uint32_t` sums, a listed hazard.
- ZlibAdapter: one call of either function on each of six kinds of input,
  with and without NDEBUG (24 initial states). Every code zlib can return
  for each call is reached.
- ServerConfig: eight argsets, chosen so that the members whose keys
  differ take both their default and another value, and both treatments
  of an unknown key (96 distinct states up to the violation).
- Deployment: three index files and two assemblies (131,000 states). Two
  files yield one assembly, the third's name matches the server's pattern
  (or, in the violation run, passes only the index command's extension
  check), and each write may succeed, fail
  without a file or leave a partial one. The server may start before,
  between or after the commands, so scans meet every mix of finished,
  missing and half-written files in all six iteration orders.
- `write_bins` is checked on the bins run's final states: every index and
  bin size of that run, and a failing write at every position.
- MethylomeSet: three threads, three accessions, two slots and five gets.
  Two threads can share a load while the third evicts, and two held entries
  fill the cache so that a third get is queued and later retried. The
  liveness run uses no symmetry.

### Fairness

Asio runs every handler whose operation has completed, so the server's
steps, the client's transaction steps and `check_deadline` are weakly fair.
An armed steady_timer eventually expires (weak fairness on `Tick`). Network
failures are never forced.

`bins_main`, `do_download` and the `cpg_index_set` constructor run on one
thread with nothing to wait for, so their next-state relations are weakly
fair. In `Deployment` the index commands and the server are separate
processes; no property of its run is a liveness property.

In `MethylomeSet`, a started load completes, a notified waiter or queued get
re-takes the mutex, and a handler releases its handle when it finishes, so
`LoadDone`, `Wake`, `Retry` and `Release` are weakly fair. New gets and
timeouts are not forced. `WaitersServed` therefore holds without help from a
waiter's deadline.

## Findings

1. `connection.cpp:188`: `respond_with_error` calls `from_chars` on
   `resp_buf` where `to_chars` of `resp_hdr` belongs. The decided error is
   lost, and with `n_intervals = 0` the client reports success.
2. `part_003:224`: `check_deadline` re-waits forever while the socket stays
   open, so `io_context.run()` does not return.
3. `part_003:203`: a deadline expiring during resolve stops the watcher.
   Later stages are unguarded: a partition after the server has received
   the whole request leaves the client's read of the response header
   pending forever (a connect or a write across the partition still fails
   through the kernel's own timeouts).
4. `connection.cpp:57`: the server sets no read timeouts, although the spec
   describes per-stage timeouts.
5. `command_server.cpp:170`: `--make-config` writes one key per described
   member, with `_` turned into `-`, so `n_threads` and `log_filename` are
   written as `n-threads` and `log-filename`. The options that read a
   config file are `threads` and `log-file`. The written file is rejected
   as having unknown keys, or, if unknown keys are skipped, it starts the
   server with one thread and no log file whatever it was made with.
6. `zlib_adapter.hpp:188`: `decompress` calls `inflateEnd` before its switch
   only for `Z_NEED_DICT`, `Z_MEM_ERROR` and `Z_DATA_ERROR`. On `Z_BUF_ERROR`
   (output too small, or truncated input) it returns with the inflate state
   still allocated. Every failed decompression of such input leaks it.
7. `download.cpp:134`: a `not_connected` error from `shutdown` is let through
   like success but is left in `ec`. `download()` then returns an error for a
   complete file and skips its Status/Reason check.
8. `part_000:80`: `command_index_main` (`lookup_server.cpp:246`) accepts
   any index file name with the `.cpg_idx` extension, but the
   `cpg_index_set` constructor keeps only names matching
   `^[_[:alnum:]]+.\.cpg_idx$` (the unescaped `.` needs a second
   character, and `-` or `.` may not appear in the assembly). `h.cpg_idx`
   is written, the command exits 0, and the server skips the file without
   a word, although its description (`command_server.cpp:35`) says the
   index directory holds the files the `index` command produces.

## Further work

1. Connect `MethylomeSet` to `Connection`: several connections whose
   `handle_header` gets go through the cache, with the handle held until
   `handle_get_counts`.
2. Give `Download` a property that its error paths keep: for example, a
   result of `none` implies a complete file and a filled header.
3. Give the zlib adapter a caller: a passing run once decompress ends the
   stream on every error, and the exact-fit assumption made explicit.
4. Model the offset computation (`get_offsets_within_chrom`, a
   `lower_bound`) against spec properties 2 and 3, if its code is found
   under `src/`.

## Not modelled

- The logger (`file_logger` in `logging.hpp`): no code under `src/` uses it
  (the commands use `logger` from `logger.hpp`, not under `src/`).
- How `argset_base` (`arguments.hpp`, not under `src/`) reads a config file
  and merges it with the command line. `ServerConfig` lets a key no option
  names be either an error or skipped. The command line's precedence over
  the file is left out, because the `-c` run gives nothing else.
- Termination of `bins_main`. With `--bin 0` (never range-checked) the loop
  `for (i = 0; i < chrom_size; i += bin_size)` never ends, and with a bin
  size of 2^31 or more on a longer chromosome `i + bin_size` wraps and the
  loop restarts. `Bins` keeps both (the bound `MaxResults` stops it), but
  the bins run checks the sizes the spec defines (B > 0) below the wrap, so
  no run states that `bins_main` returns; both are listed hazards.
- `write_intervals`, `write_intervals_bedgraph` and `write_bins_bedgraph`:
  single sequential passes. `lookup_client_main` (`part_003:345`) ignores
  the error `write_intervals` returns and exits 0 after a failed write, a
  listed hazard.
- Build files: no runtime behaviour.
- `server` itself: not under `src/`. The accept step and what its
  constructor does with the index directory are modelled. What `run()` does
  on a server whose constructor failed is left open in `ServerMain`.
- The request codec (`request::to_buffer`, `from_buffer`): no code under
  `src/` calls it. The connection and the client use `request_header` with
  `to_chars`/`from_chars`, which are not under `src/`. Its two buffer
  bounds (a read one past the buffer in `from_buffer`, an unchecked copy in
  `to_buffer`) are listed as hazards. Of `request.hpp`, the connection uses
  `get_offsets_n_bytes`, whose `uint32_t` width `Connection` keeps
  (`GetOffsetsNPairs`, n mod 2^29 pairs).
- The character layout of `write_bins`' lines is abstracted to a record. The 512-byte
  buffer bound is therefore a listed hazard.
- `decompress` returning ok when the data fills only part of `out`: the
  code assumes an exact fit on its callers, which are not under `src/`.

Resource exhaustion from the unbounded `resize` in `prepare_to_read_offsets`
is listed as a hazard and not checked.
