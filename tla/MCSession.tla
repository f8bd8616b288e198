------------------------------ MODULE MCSession -----------------------------
(* A folder with a plain 2-of-3 set, a sealed 2-of-2 set and files that are *)
(* no shares; runs that split over either set, combine or inspect, and runs *)
(* that must be refused, each for one reason.                               *)
EXTENDS Session

MCNumber(t) == IF t = "2" THEN 2 ELSE IF t = "3" THEN 3
               ELSE IF t = "256" THEN 256 ELSE 0

MCDashed == {"-o", "-s", "--seal", "-x"}

Of(secret, is_text, n, k, pass, level) ==
  [secret |-> secret, is_text |-> is_text, n |-> n, k |-> k, pass |-> pass,
   level |-> level]

Plain  == <<"./secret.1of3.shard", "./secret.2of3.shard",
            "./secret.3of3.shard">>
Sealed == <<"d/s.1of2.shard", "d/s.2of2.shard">>
Fresh  == <<"d/secret.1of2.shard", "d/secret.2of2.shard">>

Pw == <<"pw", NL>>

MCOldSplits == <<Of(<<"key">>, TRUE, 3, 2, << >>, "medium"),
                 Of(<<"disk", NL>>, FALSE, 2, 2, <<"pw">>, "strong")>>

MCOldFiles ==
  [i \in {Plain[1], Plain[2], Plain[3]} |->
     Share(1, CHOOSE x \in 1..3 : Plain[x] = i)]
  @@ [i \in {Sealed[1], Sealed[2]} |->
        Share(2, CHOOSE x \in 1..2 : Sealed[x] = i)]
  @@ "disk.key" :> Data(<<"disk", NL>>) @@ "empty" :> Data(<< >>)

Cli(args, stdin, meant) ==
  [tool |-> "cli", args |-> args, stdin |-> stdin, tty |-> << >>,
   has_tty |-> FALSE, meant |-> meant]
Typed(lines, run) == [run EXCEPT !.tty = lines, !.has_tty = TRUE]

Gui0(form, meant) ==
  [tool |-> "gui", args |-> << >>, stdin |-> << >>, tty |-> << >>,
   has_tty |-> FALSE, form |-> form, meant |-> meant]

Nothing == [op |-> "nothing"]
SplitOf(split, where) ==
  [op |-> "split", from |-> NULL, split |-> split, where |-> where]
SplitFile(name, split, where) == [SplitOf(split, where) EXCEPT !.from = name]
ACombine(shares, pass, to) ==
  [op |-> "combine", shares |-> shares, pass |-> pass, to |-> to]

SplitRuns ==
  { Cli(<<"split", "-n", "3", "-k", "2">>, <<"new", NL>>,
        SplitOf(Of(<<"new">>, TRUE, 3, 2, << >>, "medium"), Plain)),
    Typed(Pw \o Pw,
      Cli(<<"split", "-f", "disk.key", "-n", "2", "-k", "2", "-s", "-p", "s",
            "-o", "d", "--kdf", "basic">>, <<"unread">>,
          SplitFile("disk.key", Of(<< >>, FALSE, 2, 2, <<"pw">>, "basic"),
                    Sealed))),
    Cli(<<"split", "-t", "word", "-n", "3", "-n", "2", "-k", "2", "--seal",
          "-o", "d">>, Pw \o Pw,
        SplitOf(Of(<<"word">>, TRUE, 2, 2, <<"pw">>, "medium"), Fresh)),
    Typed(<<"long", "tail", NL, "long", "other", NL>>,
      Cli(<<"split", "-t", "word", "-n", "2", "-k", "2", "-s", "-o", "d">>,
          << >>,
          SplitOf(Of(<<"word">>, TRUE, 2, 2, <<"long">>, "medium"), Fresh))) }

TwoOfTwo == <<"split", "-n", "2", "-k", "2">>
Word     == TwoOfTwo \o <<"-t", "word">>

RefusedRuns ==
  { Cli(args, <<"x">>, Nothing) :
      args \in { << >>, <<"frob">>, <<"split", "-n", "2">>,
        <<"split", "-k", "x">>, <<"split", "-n", "256">>, <<"split", "-n">>,
        Word \o <<"more">>,
        Word \o <<"--kdf", "huge">>, TwoOfTwo \o <<"-t", "">>,
        TwoOfTwo \o <<"-f", "gone">>, TwoOfTwo \o <<"-f", "empty">>,
        Word \o <<"-o", "nowhere">>, Word \o <<"-p", "longname">>,
        <<"combine", Plain[1]>>, <<"combine", "-x", Plain[1], Plain[2]>>,
        <<"combine", Plain[1], Plain[2], "-o">>,
        <<"combine", "-", Plain[1], Plain[2], Plain[3], Plain[1]>>,
        <<"inspect">> } }
  \cup
  { Cli(TwoOfTwo \o <<"-s">>, <<"x", NL>> \o Pw \o Pw, Nothing),
    Cli(TwoOfTwo, <<NL>>, Nothing),
    Cli(Word \o <<"-s">>, <<"pw", NL>>, Nothing),
    Cli(Word \o <<"-s">>, <<"long", "tail", NL, "long", "tail", NL>>,
        Nothing),
    Typed(<<"pw", NL, "px", NL>>, Cli(Word \o <<"-s">>, << >>, Nothing)),
    Typed(<<NL, NL>>, Cli(Word \o <<"-s">>, << >>, Nothing)) }

CombineRuns ==
  { Cli(<<"combine", Plain[1], Plain[3]>>, << >>,
        ACombine(<<Plain[1], Plain[3]>>, << >>, "screen")),
    Cli(<<"combine", "-o", "new.key", Plain[2], Plain[3]>>, << >>,
        ACombine(<<Plain[2], Plain[3]>>, << >>, "new.key")),
    Cli(<<"combine", Plain[1], Plain[2], "-o", Plain[1]>>, << >>,
        ACombine(<<Plain[1], Plain[2]>>, << >>, Plain[1])),
    Cli(<<"combine", Plain[1], Plain[1]>>, << >>,
        ACombine(<<Plain[1], Plain[1]>>, << >>, "screen")),
    Cli(<<"combine", Plain[1], Sealed[1], Sealed[2], "-o", "disk.key">>, Pw,
        ACombine(<<Plain[1], Sealed[1], Sealed[2]>>, <<"pw">>, "disk.key")),
    Cli(<<"combine", "disk.key", "gone">>, << >>,
        ACombine(<<"disk.key", "gone">>, << >>, "screen")),
    Cli(<<"combine", Plain[1], "disk.key">>, << >>,
        ACombine(<<Plain[1], "disk.key">>, << >>, "screen")),
    Typed(Pw, Cli(<<"combine", "-s", Plain[1], Plain[2]>>, << >>,
        ACombine(<<Plain[1], Plain[2]>>, <<"pw">>, "screen"))),
    Typed(Pw, Cli(<<"combine", Sealed[2], Sealed[1], "-o", "new.key">>, << >>,
        ACombine(<<Sealed[2], Sealed[1]>>, <<"pw">>, "new.key"))),
    Typed(<<"px", NL>>,
      Cli(<<"combine", Sealed[2], Sealed[1], "-o", "disk.key">>, << >>,
        ACombine(<<Sealed[2], Sealed[1]>>, <<"px">>, "disk.key"))),
    Typed(<<"long", "more", NL>>,
      Cli(<<"combine", Fresh[2], Fresh[1]>>, << >>,
        ACombine(<<Fresh[2], Fresh[1]>>, <<"long">>, "screen"))),
    Cli(<<"combine", Sealed[1], Sealed[2]>>, << >>,
        ACombine(<<Sealed[1], Sealed[2]>>, << >>, "screen")) }

OtherRuns ==
  { Cli(<<a>>, << >>, [op |-> "help"]) : a \in {"-h", "-V"} }
  \cup
  { Cli(<<"inspect">> \o s, << >>, [op |-> "inspect", shares |-> s]) :
      s \in {Plain, Sealed \o <<"disk.key">>, <<"gone">> \o Fresh} }

Form == [op |-> "split", seal |-> FALSE, pw |-> << >>, n |-> 2, k |-> 2,
         level |-> "medium", outdir |-> "d", prefix |-> "s", infile |-> NULL,
         text |-> <<"typed">>]
CForm == [op |-> "combine", seal |-> FALSE, pw |-> << >>, paths |-> Sealed,
          to_file |-> FALSE, outfile |-> "new.key"]

GuiRuns ==
  { Gui0([Form EXCEPT !.prefix = ""],
         SplitOf(Of(<<"typed">>, TRUE, 2, 2, << >>, "medium"), Fresh)),
    Gui0([Form EXCEPT !.infile = "disk.key", !.text = NULL, !.seal = TRUE,
                      !.pw = <<"pw">>, !.level = "strong"],
         SplitFile("disk.key", Of(<< >>, FALSE, 2, 2, <<"pw">>, "strong"),
                   Sealed)),
    Gui0([Form EXCEPT !.pw = <<"pw">>],
         SplitOf(Of(<<"typed">>, TRUE, 2, 2, << >>, "medium"), Sealed)),
    Gui0([CForm EXCEPT !.pw = <<"pw">>],
         ACombine(Sealed, <<"pw">>, "screen")),
    Gui0([CForm EXCEPT !.seal = TRUE, !.pw = <<"px">>, !.to_file = TRUE],
         ACombine(Sealed, <<"px">>, "new.key")),
    Gui0([CForm EXCEPT !.paths = <<Plain[2], Plain[1]>>, !.to_file = TRUE],
         ACombine(<<Plain[2], Plain[1]>>, << >>, "new.key")),
    Gui0([CForm EXCEPT !.paths = Fresh, !.pw = <<"long">>],
         ACombine(Fresh, <<"long">>, "screen")) }
  \cup
  { Gui0(f, Nothing) :
      f \in { [Form EXCEPT !.seal = TRUE], [Form EXCEPT !.k = 3],
              [Form EXCEPT !.pw = <<"long", "tail">>],
              [Form EXCEPT !.outdir = ""],
              [Form EXCEPT !.prefix = "longname"],
              [Form EXCEPT !.text = << >>],
              [Form EXCEPT !.outdir = "longdir"],
              [Form EXCEPT !.text = NULL, !.infile = "gone"],
              [Form EXCEPT !.text = NULL, !.infile = "empty"],
              [CForm EXCEPT !.paths = <<Plain[1]>>],
              [CForm EXCEPT !.to_file = TRUE, !.outfile = ""],
              [CForm EXCEPT !.to_file = TRUE, !.outfile = "longname"] } }

MCCommands ==
  SplitRuns \cup RefusedRuns \cup CombineRuns \cup OtherRuns \cup GuiRuns
============================================================================
