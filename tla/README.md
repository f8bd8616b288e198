# Verification of PQ-Shard

PQ-Shard splits a secret into n shares of which any k give it back (Shamir's
scheme over GF(2^8)), and optionally seals every share under a passphrase
(Argon2id, Kyber-1024 + X448, XChaCha20-Poly1305). A command line program and a
GTK program use the same core. This directory holds TLA+ models of that code,
configurations that TLC checks, and proofs that TLAPS checks. Source paths below
are relative to the repository (`src/share.c` is the core's main file there).

## 1. Inventory

| component | source | state it keeps | operations |
|---|---|---|---|
| share format | `share.c`, `share.h` | none | `write_header`, `pqshard_inspect`, the plain and sealed bodies, `recover_material` |
| split call | `share.c` `pqshard_split` | working buffers, the caller's `out_blobs` | one call, with a single cleanup block |
| combine call | `share.c` `pqshard_combine`, `pqshard_free_secret` | working buffers, `xs`/`ys`/`got`, the secret handed out | one call, with a single cleanup block |
| Shamir over GF(2^8) | `shamir.c` | log/exp tables built at first use | `gf_init`, `shamir_split`, `shamir_combine` |
| hybrid KEM | `hybrid_kem.c` | none | key pair, encapsulate, decapsulate |
| Kyber-1024 | `kyber/` (adapted reference code) | none | KEM, IND-CPA scheme, NTT, packing, SHAKE |
| share files | `gui.c`, `cli.c` | files on disk | writing a set, reading a file into memory (each program has its own code for both) |
| CLI | `cli.c` | locals of one run: options, secret, passphrase, shares | `split`, `combine`, `inspect`, `read_passphrase` |
| GUI jobs | `gui.c` | windows (`App`), jobs (`Job`), worker threads, idle callbacks, the pulse timeout, application holds, nested dialogs | `on_run`, `start_job`, `worker_thread`, `job_finished_idle`, `on_window_destroy`, ... |
| secure entry buffer | `secure_buffer.c` | text, byte and character counts | the `GtkEntryBuffer` methods |
| build, icons, desktop file | `Makefile`, `data/` | none | nothing to check |

How they interact: the CLI calls the core on its only thread. The GUI makes a
`Job` of a filled-in form and gives it to a worker thread, which reads or writes
the share files and calls the core; the worker queues an idle callback, and the
main thread takes the result there, possibly in a main loop nested in some
dialog. Several windows share the process, so several workers may be in the core
at a time; the only state they then share there is `shamir.c`'s tables.

What is hard, and what makes each component correct (every item with its line is
in `PROJECT.json`, "hazards"):

* **combine**: takes any files in any order and decides share by share. It must
  return nothing but a secret that was split, on that split's own threshold;
  its messages must be true; whichever of its allocations fails, it must leave
  nothing behind; its verdict must not depend on where in the list a bad share
  is. Argon2 may run out of memory between two shares.
* **split**: all shares or none, whichever share fails; nothing left allocated;
  whatever it writes at the edges of its limits a combine must read.
* **GUI jobs**: no callback that is pending, or suspended under a dialog, may hold
  a pointer to a freed `App` or `Job`; one job per window; holds and releases
  balance, so that the process ends when it should and never under a worker; the
  run button comes back.
* **share files**: a set is written file by file over whatever is there; a stop
  half way, an unchecked `fclose`, and a read limit that differs between writer
  and reader.
* **Shamir tables**: log/exp arithmetic without reductions, 0 without a log, and
  tables that two workers may both find unbuilt.
* **secure buffer**: bytes and characters of UTF-8 counted separately through
  insertion, growth, truncation and deletion.
* **Kyber**: reductions that must stay in range, multiply-and-shift divisions,
  hand-written packings, a sponge fed and read in pieces, a rejection loop that
  almost never needs its last branch, and a failed re-encryption that is answered
  with a pseudorandom secret rather than an error.
* **hybrid KEM**: any library call may fail in either of two nested functions; the
  same key out as in exactly when the block and the passphrase are right; the
  locals wiped on every way out.
* **CLI and the GUI's form**: what is meant must be what is done, whatever the order
  of options and files, whether the passphrase comes from a terminal or from the
  stdin the secret came from; a run that is refused changes no file, and what is
  allocated is freed on each of some thirty ways out.

## 2. Modules

| module | what it is |
|---|---|
| `ShareFormat` | the blob, its parser, what a split writes and a combine opens, as operators |
| `SplitCall` | `pqshard_split` as a state machine, with its caller's release |
| `AtomicSplit` | what a split promises: all shares of one split, or nothing |
| `SplitCallProofs` | the theorems about `SplitCall`, with the proof that it implements `AtomicSplit` |
| `CombineCall` | `pqshard_combine` as a state machine, with `pqshard_free_secret` |
| `Reconstruct` | what a combine promises, in one step and with no order among the blobs |
| `CombineGenuine` | what `CombineCall` does with lists where nobody re-signed a blob: it implements `Reconstruct` |
| `CombineCallProofs` | the theorems about `CombineCall`, and that it implements `Reconstruct` |
| `GuiJobs` | windows, workers, idle callbacks, dialogs and holds of `gui.c` |
| `GuiJobsProofs` | the theorems about `GuiJobs`, `ShareFiles` and `ReadFile` |
| `ShareFiles` | a set of share files written over an older one |
| `ReadFile` | the two ways a file is read into memory |
| `GaloisField` | GF(2^8) by its definition, bytes as sets of bits |
| `Shamir` | tables, logarithm arithmetic, split and combine of a byte |
| `GfInit` | several threads in the table set-up |
| `ShamirProofs` | the theorems about `GaloisField`, `Shamir` and `GfInit` |
| `SecureBuffer` | the entry buffer's bytes, counts and wiping |
| `TextEdit` | what it promises: a text edited by characters, and its signals |
| `SecureBufferProofs` | the theorems about `SecureBuffer`, with the proof that it implements `TextEdit` |
| `Fips202` | the permutation, sponge and stream functions of `kyber/fips202.c`, as operators |
| `KyberRing` | reductions, NTT, products and noise: `reduce.c`, `ntt.c`, `cbd.c`, half of `poly.c`, `polyvec.c` |
| `KyberCodec` | packing, compression and rejection: the other half, and `rej_uniform` |
| `KyberKem` | the encryption of `indcpa.c` and the KEM of `kem.c` |
| `KyberReference` | the same, said again from the definitions the comments and standards give |
| `HybridKem` | `hybrid_build`, `hybrid_open` and `hybrid_kem.c` as a state machine over `KyberKem` |
| `HybridKemProofs` | the theorems about `HybridKem` and the Kyber code under it |
| `Session` | runs of the command line and of the window's Run button in one folder |
| `SessionProofs` | the theorems about `Session` |
| `Induction` | induction and recursion, as lemmas without an operator parameter; `ShamirProofs`, `HybridKemProofs` and `SecureBufferProofs` use them |
| `MC...` | instances for TLC |

What composes what: `SplitCall` and `CombineCall` stand on `ShareFormat`, where
`hybrid_open` is one predicate; `HybridKem` shows that predicate of the real one. `Session`
takes from the two calls only what they are shown to promise (`AtomicSplit`,
`Reconstruct`) and adds what is around them. `GuiJobs` has the callbacks around a job,
`Session` the job's own work.

`Shamir`, `SecureBuffer`, `Session`, `SplitCall`, `CombineCall`, `GuiJobs` and `HybridKem` call their
definitions `Spec`, `Init`, `TypeOK`; in `GfInit`, `ReadFile` and `ShareFiles`, whose theorems
share a module with another component's, they are `RaceSpec`, `ReadSpec`, `FilesSpec` and so on.

### The share, abstractly (`ShareFormat`)

Bytes are kept as far as the code tells them apart. A split's material is a
*family* (its polynomials: set_id, secret, threshold, length); a share's
y-material is the family's value at x, a *point*; bytes that lie on no family's
polynomial are `Junk`. `shamir_combine(xs, ys, k)` gives a family back when the
first k points are its own and its degree is below k, and `Junk` otherwise;
that k points of a polynomial determine it, and that fewer or mixed points give
bytes whose tag does not match, is the cryptographic abstraction. BLAKE2b and the
AEAD are perfect: a tag *is* the bytes it covers (`auth`), so `Intact(b)`
compares them with the bytes present. `block` is the master key the hybrid block
was wrapped under; `hybrid_open` succeeds when the passphrase and the costs
stated in the blob give that key again. The costs, lengths and all bounds are the
code's own numbers. `pqshard_inspect`, `KdfAccepted` and `recover_material` keep
every check of the code in its order. The header's `reserved` bytes (13..15,
written as 0 and never read) and the little-endian coding are left out.

### The calls (`SplitCall`, `CombineCall`)

`pc` follows the function from its argument checks through its loops to the
cleanup label. One action is one stretch between two points where an allocation,
a share's verdict or the KDF may end the call:

| `CombineCall` | code (`src/share.c`) | `SplitCall` | code (`src/share.c`) |
|---|---|---|---|
| `CheckFirst` | 448-464, before any allocation | `Check` | 274-287 |
| `Alloc` | 466-471 | `Alloc`, `AllocY` | 289-302 |
| `Load` | 474-490: inspect, match, duplicate, malloc | `ShamirSplit` | 303-305 |
| `Recover`, `KdfStarves` | 491-494 with `recover_material` | `EmitAlloc` | 310-332 |
| `Interpolate` | 497-500 | `Fill`, `HybridBuildFails` | 319-362 |
| `VerifyTag` | 502-510 | `EmitDone` | 364 |
| `Copy` | 512-519 | `Cleanup` | 366-382 |
| `Cleanup`, `Release` | 521-534 | `Release` | the callers' frees |

`heap` and `ybuf` are the buffers malloc'd and not yet freed; `starved` is an
auxiliary variable that remembers a failed allocation or Argon2 run, so that
properties can say which refusals memory explains. Each malloc may fail; in
`Alloc` any subset of three may. The branches for a failing `shamir_split` and
`shamir_combine` are there (the ELSE of `ShamirSplit` and `Interpolate`) and the
runs and a theorem show they are never taken.

### The GUI (`GuiJobs`)

`gtk_dialog_run` runs the main loop inside its caller, so a callback may be
suspended half way while others run. `dialogs` is the stack of such calls; a
frame with a job is the second half of `job_finished_idle` (`job_free`, release),
which `CloseDialog` runs. Assumed of GTK (external): a modal dialog takes the
input, so the user reaches a window only when no dialog is up, and only the
newest dialog can be closed; a window keeps the application running; so does a
hold. What a job computes is left to the two modules above: a job may end in a
dialog (an error, or a recovered text) or in a status line.

### Share files (`ShareFiles`, `ReadFile`)

`write_shares` and the end of `cmd_split` are the same loop: `snprintf` and `fopen`
(`OpenFails`, `Open`), `fwrite` (`Write`, which may come short anywhere), `fclose`
(`Close`). A file is a row of blocks. `fwrite` puts all but the last block of a share
in the file and leaves that one to stdio's buffer (a short share is one block, a
sealed or long one several), so `fclose` writes it, or fails to, which
nobody looks at. `Stop` is the end of the process at any point. A complete
older set of the same n, hence the same names, is there at the start; a
file opened is truncated. What the process has handed to the system is taken
to stay: a power failure, after which files may lack blocks though `fclose`
succeeded (the code never calls `fsync`), is not modelled.

`ReadFile` has the doubling buffer of `read_all` (`cli.c`) and the measured read of
`read_file` (`gui.c`), with the code's numbers.

### Shamir (`Shamir`, `GfInit`)

The tables are variables, filled entry by entry as in `gf_init`; a split draws a
polynomial for one byte (the loop over bytes repeats it), `Collect` gives the caller
its shares one by one in any order and with repeats, and `shamir_combine` checks
and interpolates. `GaloisField` defines the field with no tables, as polynomials modulo
x^8+x^4+x^3+x+1, for comparison.

`GfInit` keeps of an entry only whether it is set, as all builds store the same
values, and gives each thread a set of stores that only itself sees so far: gf_ready and the tables are
plain variables with no lock or fence, so when and in which order another thread
sees the stores is up to the build and the processor.

### The entry buffer (`SecureBuffer`)

`mem` is the allocation byte by byte; `Grown` is `ensure_cap`, `Offset` is
`g_utf8_offset_to_pointer`, `Terminated` the terminator with the `sodium_memzero` behind it.
GTK's base class, external, brings the position into the text. `signal` is the last
signal emitted. Guard pages and locking are libsodium's.

### Kyber and the hybrid block (`Fips202` ... `HybridKem`)

Kyber is deterministic but for `randombytes`, so it is modelled as operators that
compute the code's values byte by byte: a key pair, an encapsulation and a
decapsulation are evaluated in full, with the code's tables, Montgomery factors,
`int16_t` wraps, packings and block loops. A Keccak state is the set of its 1 bits, which makes
`^` a symmetric difference and a rotation a move of positions. A hand-written
packing is a table of which input cell goes where by what shift. The code's loops are
recursive functions. `Tabulate`, which is the identity on the functions it is applied to, has
TLC compute such a function once; TLC would otherwise evaluate it anew at each use.

`HybridKem` has one action per library call, in the code's order. Each may fail and
takes its own exit label: `hk_out` wipes what the key exchange made, `hybrid_out` what is
around it. Between a build and an open the block lies in a file (`Store`), where one of its
parts is damaged, or none. A shared secret is in its buffer from the call that fills it (`EncDerive`,
`DecDerive` for X448's) to the exit that wipes it; what `kem.c` has on its own stack, and does not wipe, is
not followed. Argon2id, the AEAD, BLAKE2b and X448 are external and
perfect, as in `ShareFormat`. A damaged wrapped key is one that no master key opens any more.

### The front ends (`Session`)

A run starts with `Begin`, which picks a command with its arguments, what is on stdin and
at the terminal (or a filled-in form), and what the user means by it; no step looks at that last
part, the properties do. The steps are the functions' stretches: `Main` and one
step per argument (`cmd_split`, `cmd_combine`, `cmd_inspect`) or the form's checks and copies (`on_run`);
then the steps the programs share, with `Gui` where they differ: `Gather`, `start_job` (the window's thread, which
may not start though the secret is already allocated), `AskToSeal`,
`Confirm`, `AllocSplit`, `pqshard_split`, `WriteShare`, `SplitDone`; `AllocCombine`, `ReadShare`,
`AskToCombine`, `pqshard_combine`, `Deliver`. `heap` names the buffers the run holds;
`env` remembers that a call failed, or that data was lost without a word.

A line of text is a sequence of pieces, one of them the newline, one as long as the
passphrase buffer: that is what `fgets` and the newline's removal can tell apart. stdin keeps
what was not read; a terminal is flushed around each prompt (`TCSAFLUSH`). Options
are parsed as written: a later `-n` wins, an option whose value is missing is an unexpected
argument of split, an unknown option of combine. A line that `fgets` cuts counts as what the user means only as
far as it was taken.

The window shows a secret in a text view, which takes UTF-8 only (`src/gui.c:393`); pieces in `Binary` are none. Such
a secret is reported and can be saved to a file, but is not shown (`Showable`), and
`VerdictIsRight` asks no more.

## 3. What TLC checks

| run | instance | what it shows |
|---|---|---|
| `combine` | every list of at most 3 files out of either of two folders. One: a plain 2-of-3, a sealed 3-of-3 (KDF_STRONG) and a sealed 2-of-3 (KDF_BASIC) split, and damaged copies. Two: three splits and files put together from their headers and y-material with valid checksums (k changed, x changed, another split's material, a shorter length). No, right and wrong passphrase | `ImplementsContract`: the call implements `Reconstruct`, whose answer ignores the order of the list; `OnlyTheSecret`; `CleanExit`; `ShamirPrecondition`; `DiagnosisIsTrue` |
| `split` | requests at the edges of each check (n = 255 with k = 2, a sealed 3-of-4 split, 64 MiB, the strongest KDF, and each refused kind) | `SplitCleanExit`, `RoundTrip`, `ImplementsAtomicSplit` |
| `gui_jobs` | 2 windows, 3 jobs | `NoDanglingPointer`, `OneJobPerWindow`, `HoldsBalance`, and the liveness properties `ButtonComesBack`, `ClosedIsFreed`, `AllClosedEnds` |
| `shamir` | secret bytes and coefficients 0, 1, 83, 255; shares 1, 2, 3, 255; thresholds 2 and 3 | `FieldArithmetic` (all 65536 products and quotients), `Recovered`, `OneOfTwoSaysNothing` |
| `share_files` | six shares of three blocks over six of one; thresholds 2 and 3 | `OneSetSurvives`, `SuccessIsWhole` |
| `read_file` | file sizes around every size the buffer takes and around both limits | `ReadIsWhole`, `CliReadsEveryShare` |
| `secure_buffer` | texts of up to nine characters of one and four bytes, pastes of up to eight | `CountsAgree`, `NothingLingers`, `EditsText` |
| `hybrid_kem` | one Kyber key pair, two encapsulations; a byte of either half of the Kyber ciphertext, the X448 key, the wrapped key or nothing damaged; right and wrong passphrase | `OpenContract`, `ImplicitRejection`, `SecretsCleared`; and, once, `HashesExact` (Keccak's tables, streams, sampling), `RingExact`, `CodingExact` against `KyberReference` |
| `session` | any three of 64 runs in a folder with a plain and a sealed set, a key file and an empty file | `SplitKeepsItsWord`, `VerdictIsRight`, `FilesKept`, `BuffersFreed` |
| `combine_extra_shares` | as `combine`, the second folder | violated: see Findings |
| `read_file_gui` | as `read_file` | violated: see Findings |
| `gf_init` | 2 threads, 3 entries, stores seen in any order | `TablesAreBuilt`, violated: see Findings |

`TypeOK` is a module's type invariant; it is checked where something other than the
types' shape could break it.

**Bounds.** `MaxBlobs` bounds the list a combine gets. Three is one more than the
smallest threshold, so a list has a share beyond the first k, a duplicate with a
share in between, a bad share in the first, a middle and the last place, and
mixed sets; with a split of threshold 3 all of them are needed. A longer list adds
turns of the loop that look only at the shares before. `App` and `Job` bound the
windows and jobs: two windows give every interleaving of one window's callbacks
with another's dialog, three jobs let a window run a second job while the
other's is pending. Memory may fail at
any share of any request of `split`, the one with n = 255 included. `MaxK` bounds the threshold in
`shamir` (three shares: a repeat can have another between);
`MaxBlocks` the blocks of a file (first, middle, last); `MaxChars` the text in
`secure_buffer` (eight wide characters need 33 bytes with their terminator, one more
than the first allocation has: the ninth comes before or after the growth). `MaxRuns` = 3 in
`session` lets a run work on what two others left (a split over a set that was sealed, a combine
of it with output over the key file, a split of that file); `MAX_PATHS` is 4 there, and one
run names five things. Among the runs are each option, each refusal, prompts answered from a terminal and
from stdin, passphrases that differ, are empty, or fill the buffer, and shares in either order. In
`hybrid_kem` the key pair's randomness is chosen so that one matrix entry finds
255 of 256 coefficients in its first three blocks and the code has to squeeze another; the
reductions are checked for all 65536 arguments of `barrett_reduce`, at the ends of `montgomery_reduce`'s
range and 16384 points across it (the proofs have all of them); roundings for every coefficient; products for coefficients at both
ends of their range and scattered ones; streams cut at a block's end and one byte to each side. The VIEW of
`secure_buffer` leaves out the last signal, which no guard reads.

**Fairness.** Only `GuiJobs` needs any: each worker thread ends (its work is finite
and it waits for nobody), the main loop dispatches every queued idle callback, in
nested loops too, and `g_application_run` returns once nothing holds the
application. These are weak fairness of `worker_thread(j)`,
`job_finished_idle(j)` and `Exit`. Nothing is assumed of the user: no click ever
need happen, and a dialog may stay open for ever. `gui_jobs` switches the
deadlock check off because the process ends.

### Findings

* `combine_extra_shares`: the comment at the tag check (`src/share.c:502`) says it
  catches "wrong/foreign shares that nonetheless matched the set metadata".
  Only the first k shares take part in the interpolation. A foreign share behind
  them is opened, counted and ignored; put first, the same files are refused.
* `read_file_gui`: the GUI reads files of at most 64 MiB + 4096 bytes (`src/gui.c:293`). A
  sealed share of the largest secret, which the same program writes, has
  64 MiB + 5012. The CLI reads it. (The README promises "any file (binary-safe), up to
  64 MiB".)
* `gf_init`: the comment at the top of `src/shamir.c` (line 5) says "tables built once at first
  use". The tables and `gf_ready` are plain variables (`src/shamir.c:20`-`42`), and two windows' workers may be in
  `gf_init` at a time. Where the compiler or a weakly ordered processor lets gf_ready be seen before an
  entry, the second worker multiplies with an entry that is still 0: a split would then write
  shares that do not give the secret back. The tables may also be built twice, which does no harm. The theorem `RaceIsConfined`
  bounds the damage: it takes another thread whose stores are on their way.

Observed on the way, without a run of their own:

* When Argon2 cannot get its memory, a combine says "Wrong passphrase or a
  tampered share." (`src/share.c:430`), though neither is so; the split side names
  KDF memory as a cause (`src/share.c:352`). `DiagnosisIsTrue` excepts that case.
* `fclose` is unchecked (`src/gui.c:279`, `src/cli.c:233`). What stdio still holds, for a
  short secret the whole share, may not reach a full disk, and the user is told
  "%d shares written to:" (`src/gui.c:282`). `OneSetSurvives` counts every such loss
  against the set, `SplitKeepsItsWord` and `VerdictIsRight` except it (`env.lost`). The same goes for a
  recovered secret (`src/cli.c:317`, and the unchecked `fwrite` to stdout at 320).
* Where only one of its two arrays can be allocated, the CLI returns without
  freeing it (`src/cli.c:205`, `275`; `gui.c:306` and `320` free both). `BuffersFreed` states the exception. The
  process ends right after, so nothing comes of it.
* A secret on stdin and a passphrase typed there exclude each other: without a terminal
  `split -s` reads stdin to its end for the secret and then fails at the prompt. It refuses, it does
  not seal with an empty passphrase.
* With no terminal a passphrase line that fills the buffer leaves its newline unread, so the
  confirmation reads an empty line and the split is refused. At a terminal the rest of
  the line is flushed.
* Two splits given the same folder, prefix and n at a time (two windows, two
  processes) overwrite each other's files; both may report success and neither be
  recoverable. `ShareFiles` takes a set of writers; its properties are about one.
* The repository's README says that a corrupted share is named, while the
  message of `src/share.c:399` names none.

## 4. What is proved

TLAPS checks every proof. A theorem holds for every value of the constants that
meets the named assumptions of the module and of those it stands on; TLC evaluates the
assumptions on each instance. Each invariance theorem has the same outline: an inductive
`Inv`, checked by TLC first, with one lemma per conjunct or per group of actions.

`Induction` has what several proofs need of data of any length. No induction theorem with an operator
parameter is used, as no prover here can instantiate one: `NatInductionOnSets` takes the least number
outside a set (`WFMin`), `UpTo` and `SeqInduction` are its forms for a bounded count and for
strings, and `Recursion` gives that a recursive function exists. The models use recursive
functions and no recursive operators, so that these lemmas apply to what the code's loops compute.

### Combine (`CombineCallProofs`)

For every set of blobs (forged ones included), every list length and passphrase:

| theorem | statement |
|---|---|
| `TypeCorrect` | `Spec => []TypeOK` |
| `Soundness` | `Spec => []OnlyTheSecret`: a success returns the secret of the first share's split, on at least that split's own threshold of intact shares at distinct points |
| `NoLeak` | `Spec => []CleanExit` |
| `ShamirIsMet` | `Spec => []ShamirPrecondition`: `shamir_combine`'s -1 is unreachable |
| `Diagnoses` | `Spec => []DiagnosisIsTrue`: the reason given for a refusal is true of the call |
| `Implements` | `Spec => ImplementsContract`: over blobs nobody re-signed, the call implements `Reconstruct` |

The first four follow from `Invariance`, `Spec => []Inv`, with

    Inv == TypeOK /\ Control /\ Loaded /\ Result

None of the four properties is inductive alone. `OnlyTheSecret` speaks of the
return, where the evidence is no longer being looked at: `Loaded` carries it
through the loop (the shares below `got` parsed, matched the first, were opened
and are recorded in `xs` and `ys` at distinct points) and `Result` through the rest (what
`material` is once interpolated, that its tag matched, what `out` is). `Control`
ties `pc` to the buffers held and to `err` and `ret`, which is what `CleanExit` needs.
The proof has one lemma per conjunct (`TypeStep`, `ControlStep`, `LoadedStep`,
`ResultStep`), each a case per action, and lemmas on the operators they rest on
(`InspectBounds`, `RecoverVerdict`, `CombineValue`, `TagVouches`,
`LoopMeetsShamir`). Assumed are `DistinctValues`, `JunkAssumption`, `SplitsAssumption` and
`BlobsAssumption`.

`Diagnoses` adds `Message`: from the step that sets `err` on, what the message says is
so of the blobs, although the message is read at the return. The hard
case is the tag: `TagDenies` shows that a mismatch of the tag is never the fault of
k shares of one split (`CombineWhole`: those interpolate to the split's own material).

`Implements` has two directions. *Soundness* (`OneSplit`): with genuine blobs the shares that passed the
loop are all of one split. `Inv` says that of the first k only, since the others never reach the tag, so
`Granted` remembers of a success that every blob of the list passed (`Passed`). *Completeness*
(`NoExcuse`): where the list deserves the secret, none of the messages can be true, hence
`Message` leaves only a starved call. Both meet in `StepImplements`: a step maps to
`Reconstruct`'s question, its answer or a stutter.

### Split (`SplitCallProofs`)

For every set of requests, with allocations and key set-ups failing anywhere:

| theorem | statement |
|---|---|
| `TypeCorrect` | `Spec => []TypeOK` |
| `NoLeak` | `Spec => []SplitCleanExit` |
| `SplitThenCombine` | `Spec => []RoundTrip`: every blob passes inspect and opens under its passphrase, and any k of them give the polynomials back |
| `Implements` | `Spec => ImplementsAtomicSplit`: all shares of one split, or nothing |

`Inv == TypeOK /\ Control /\ Outcome`. `RoundTrip` and the refinement speak of the return; `Control` says
that at turn i exactly the shares before i are made and that they are those of the
one family drawn, and which buffers are held; `Outcome` what is left of this at the return. `RoundTrip` also needs that what
`write_header` and the bodies produce at the limits of n, k, length and level is within the
parser's limits, which is lemmas about `ShareFormat`.

### GUI jobs (`GuiJobsProofs`)

For any number of windows and jobs, and any nesting of dialogs (`NullAssumption`):

| theorem | statement |
|---|---|
| `TypeCorrect` | `Spec => []TypeOK` |
| `PointersLive` | `Spec => []NoDanglingPointer` |
| `OneJob` | `Spec => []OneJobPerWindow` |
| `HoldsMatch` | `Spec => []HoldsBalance` |

`Inv == TypeOK /\ Apps /\ Owners /\ Dialogs /\ Holds`. `Apps` says what keeps an `App` alive (its window or
its job: the code frees it where the second of the two goes), `Owners` that `current_job` and
the job's own pointer agree, `Dialogs` that a suspended frame's job is in no other frame and its window is
open, `Holds` that the holds are counted by the jobs pending, of which there are finitely many. `NoDanglingPointer`
fails to be inductive without `Owners`: it would let an idle callback free the `App` that
another job points at.

### Share files (`GuiJobsProofs`)

For one writer and any n, thresholds and share sizes (`ShareFilesAssumption`):

| theorem | statement |
|---|---|
| `Survives` | `FilesSpec => []OneSetSurvives` |
| `Success` | `FilesSpec => []SuccessIsWhole` |

from `FilesInv == FilesTypeOK /\ \A w : Progress(w)`. `Progress` says what the
loop has done: the files below `i` are the new set's or lost in `fclose`, those
above are the old set's, and what is in the file at `i` at each `pc`. `OneSetSurvives` compares
cardinalities, so it needs a counting step (`Survival`, with `LostCount`): files of neither set are the
one at `i` and the lost ones.

For files of any length (`SizesAssumption`) there are `ReadTypeCorrect`, `ReadWhole`
(`ReadSpec => []ReadIsWhole`) and `EveryShare` (`ReadSpec => []CliReadsEveryShare`). The doubling buffer takes twelve
sizes only (`Caps`); `CliReading` says that it is grown exactly when full, so a refusal without a failing
call means a file of at least twice the largest secret, which no share reaches.

### Shamir (`ShamirProofs`)

For every threshold up to 255, every polynomial and every choice of shares (`ShamirAssumption`):

| theorem | statement |
|---|---|
| `TypeCorrect` | `Spec => []TypeOK` |
| `TablesMultiply` | `Spec => []FieldArithmetic`: products and quotients through the tables are those of GF(2^8) |
| `SecretRecovered` | `Spec => []Recovered` |
| `OneShareSaysNothing` | `Spec => []OneOfTwoSaysNothing` |
| `TooFewSharesSayNothing` | `Spec => []OneFewerSaysNothing`: any k - 1 shares go with every secret, each by exactly one polynomial |
| `RaceIsConfined` | `RaceSpec => MisreadsOnlyInARace`, for any threads and number of entries: an entry that is not set is read only while another thread's stores are on their way |

*The field.* `GaloisField` multiplies by polynomial arithmetic on sets of bits and reduces modulo
x^8+x^4+x^3+x+1. Product and reduction are linear (`TimesLinear`, `ResidueLinear`), so the laws
need showing for single bits only (`TimesOfBits`), which gives `TimesCommutes`, `TimesOne` and
`TimesT3`, the step of the table loop. Powers of 0x03 then add their exponents (`PowerSum`). That these are all
the bytes but 0 is `Order` and `EveryByte`: repeated squaring gives the powers (`PowerValues`), whose
255/3, 255/5 and 255/17 are not 1, so the least period is 255, and 255 different
nonzero bytes are all there are. Inverses, associativity and distributivity follow (`Field`).

*The tables.* `Inv == TypeOK /\ Tables /\ Polynomials /\ Shares /\ Answered /\ Recovered`. `Tables` says what the
table loops have filled in so far; that `gf_ready` implies completed tables, which hold the powers, is what
makes `gf_mul` the product (`TableMul`, `TableDiv`). `Polynomials` and `Shares` tie the
collected shares to the polynomial that was drawn.

*Interpolation.* `shamir_combine`'s two nested loops are `SecretAtZero`: the weights of a set of shares
satisfy a recursion when one share is cut off (`WeightCut`, `Cut`), from which a
polynomial of degree below k at 0 is the weighted sum of its values, by induction on k.
*Secrecy* turns this round: with the secret as the value at 0, k points determine the polynomial
(`OnePolynomial`), so evaluation is an injection of the finite set of coefficient rows into itself, hence
onto (`SomePolynomial`). It is a counting statement, for coefficients drawn uniformly it is perfect secrecy.

*The race.* `TablesAreBuilt` fails, so what is proved is how far the failure goes. The invariant `Vouched` says that
whoever sees a gf_ready, its own or another's, may rely on every entry having been stored by somebody (`Made`), though
perhaps not where it is seen; an entry missed is then in another thread's buffer. A program with one
thread, as the command line is, always finds its tables built.

### The entry buffer (`SecureBufferProofs`)

For any characters of one to four bytes, any strings inserted and texts of any length
(`SecureBufferAssumption`):

| theorem | statement |
|---|---|
| `TypeCorrect` | `Spec => []TypeOK`: text and terminator within the allocation |
| `CountsStayTogether` | `Spec => []CountsAgree` |
| `Wiped` | `Spec => []NothingLingers` |
| `Implements` | `Spec => EditsText`: the bytes implement `TextEdit` |

`IInv == TypeOK /\ Decoded \in Seq(Char) /\ CountsAgree /\ NothingLingers`. It amounts to: there is
a string whose encoding the live part is (`TextIsHeld`, `HeldText`). An insertion then puts one
encoding between two, a deletion takes the middle of three out (`InsertKeeps`, `DeleteKeeps`), and both
theorems of state and the refinement read off the same two lemmas.

The encoding, the decoding, the walk to a position and the doubling of the capacity are recursive functions, and
what is said of them holds for strings of any length: `EncodeConcat` (the encoding of strings put together), `OffsetFinds`
(`g_utf8_offset_to_pointer` finds where a character begins), `ReadBack` (decoding gives
back what was encoded) and `GrownFits` (`ensure_cap` ends with room for what is needed and the text in place).

### The hybrid block and Kyber (`HybridKemProofs`)

For any passphrases, keys, random values and damages (`HybridAssumption`):

| theorem | statement |
|---|---|
| `NoSecretStays` | `Spec => []SecretsCleared` |
| `OpenKeepsContract` | given `KyberWorks`, `Spec => []OpenContract` |
| `RejectionIsImplicit` | given `KyberWorks`, `Spec => []ImplicitRejection` |
| `NttMultiplies` | for all polynomials with coefficients within 9471 of 0, the product through the NTT is the product modulo X^256 + 1 |
| `RingIsExact` | `Spec => []RingExact` |
| `FieldsComeBack` | for each packing, any number of groups of fields keep their bits and come back |
| `CodingIsExact` | `Spec => []CodingExact` |

*The block.* `ClearInv == Buffers /\ Held` says which locals hold something at which call; `SecretsCleared`
speaks of the return only, and an exit label clears no more than its own function's secrets.
`ContractInv == Placed /\ Progress /\ Recovery /\ OpenContract` follows one key pair and one
encapsulation through the build, the file and the open. The secret key is a packed string of four parts;
`KeyLayout` and `KeyParts` show that `crypto_kem_dec` finds in it what `crypto_kem_keypair` put
there. `KyberWorks` is the cryptographic hypothesis, about the keys, messages and damages of the
instance: `DecryptionCorrect`, that decryption inverts the encryptions
`crypto_kem_enc` makes (Kyber allows a failure with negligible probability, so no proof can do without), and
`DamageShows`, that a damaged ciphertext is not the encryption of what it decrypts to
and that `kdf` of z and it does not collide with the encapsulated secret. The run
`hybrid_kem` computes exactly these values: had the hypothesis failed there, so had `OpenContract` or `ImplicitRejection`.

*Reductions.* `Barrett` holds for each `int16_t`, `Montgomery` for each argument in
[-q 2^15, q 2^15), by linear arithmetic about quotients.

*NTT.* `LevelProduct(a, b, m)` is the product of the polynomials' blocks of m coefficients, each modulo its own
X^m - root. For m = 256 it is the product modulo X^256 + 1 (`ReferenceIs`), for m = 2 it is what
`basemul` computes (`BasemulIs`, with `SignedZeta`). `ProductDescends` takes it down
one level, as `ntt_layer` takes the factors (`LayerDescends`): it needs that the square of a block's root is
the root of the block it is half of (`RootSquares`), a fact about the 128 zetas. On the way back each layer
doubles (`LayerAscends`, with `OppositeRoots`) and the factor 1441 undoes the doublings and the
Montgomery factors (`Finished`). *No wrap*: each of the seven layers down adds at most
3328 to a coefficient's bound, so anything within 9471 ends within 9471 + 7 * 3328 = 32767 (`NttDescends`); the layers back
reduce each sum (`PolyReduced`).

*Packing.* A table is shown cell by cell to lay each output cell as consecutive bits of the
fields (`Laid`). Then a bit of a cell is the bit at the same place of the group (`CellBit`), hence
of the whole string (`RepackBits`), and as bits determine a field (`BitsDetermine`),
unpacking inverts packing.

### Front ends (`SessionProofs`)

For any commands, forms, inputs, files and folders, and whatever the user means by them:

| theorem | statement |
|---|---|
| `NoLeak` | `Spec => []BuffersFreed` |
| `Effect` | `Spec => []EffectIsEarned` |

`EffectIsEarned` is stated in `SessionProofs`. It is the code's half of `SplitKeepsItsWord`,
`VerdictIsRight` and `FilesKept`, which compare what a run did with what was meant by it: a run that
changed a file or showed anything is either a split, whose own shares are then in the files `SharePath`
names and nowhere else, or a combine that delivered the secret of the very files
named, all of which it accepted; its status is 1 exactly if a call failed; a refusal changes
no file, and no file ever goes. `Inv == Shape /\ Heap /\ Quiet /\ Writing /\ Reading /\ EffectIsEarned`: `Heap` says what is allocated
at each step, `Quiet` that nothing is written before `write` and `deliver`, `Writing` and `Reading` how far the two
loops are, measured against `before`, the folder at the start of the run. `SessionAssumption` says that
argv and the window's list of files are lists of names. The state's records are open (options
are added to them as the code has fields), so `Shape` has their domains and the theorem about types goes no further.

### Only model-checked

* `SplitKeepsItsWord`, `VerdictIsRight` and `FilesKept` of `Session`. They need that the
  arguments say what was meant, which is a fact about the 64 commands of the instance, and that
  the paths of two shares differ, a fact about the text of numbers.
* `HashesExact`. It compares Keccak's tables with those FIPS 202 derives, the block loops with streams cut elsewhere and the sampling
  with the rejection rule, by evaluating them on chosen messages (theta, chi and the padding
  are `fips202.c`'s own on both sides); that a matrix entry is complete after a given number of blocks is a fact about particular outputs.
* Liveness (`ButtonComesBack`, `ClosedIsFreed`, `AllClosedEnds`), which rests on fairness.
## 5. Not modelled, and the plan

Not modelled: wiping and locking of memory (`sodium_mlock`, `sodium_munlock`
have no effect the properties see, except for the key exchange's secrets, in `HybridKem`),
core-dump limits, layout and style of the widgets, the file choosers, the
clipboard, messages' wording, the usage text, the build. Of Kyber, the branches
`params.h` does not select (other values of k, eta 3, the smaller compressions). In `Session`, a signal
that ends a run half way (`ShareFiles` has that for a split) and two runs at a time. Secrecy is a
claim about distributions and attackers, beyond counting arguments.

What is left is proofs:

1. `Session`: `FilesKept`, under an assumption that says of commands what they mean.
2. Kyber: `DecryptionCorrect` up to the size of the noise, from `NttMultiplies` and the rounding lemmas.
