-------------------------------- MODULE MCHdl ---------------------------------
(***************************************************************************)
(* The front end and the simulators of mini-hdl-lang for TLC.  A behaviour *)
(* works one of them; the designs they are given are those below.          *)
(***************************************************************************)
EXTENDS Integers, Sequences

CONSTANTS MaxItems, MaxExpr, Designs, MaxInstances
Names == {"a", "b", "m", "n"}
Operands == {"a", "b"}
Numbers == {"1", "2"}
Operators == {"&&", "<", "<<", "+", "-", "*"}
ModuleNames == <<"m", "n">>
PortLists == {<<>>, <<"(", "input", "a", ",", "output", "reg", "[", "1", ":", "2", "]", "b", ")">>}
Fragments ==
  { <<"wire", "[", "1", ":", "2", "]", "a", ";">>, <<"reg", "b", ";">>, <<"inout", "a", ";">>,
    <<"parameter", "a", "=", "1", ";">>, <<"parameter", "a", "=", "2", ";">>,
    <<"assign", "a", "=", "(", "a", "-", "b", ")", "-", "1", ";">>,
    <<"assign", "b", "=", "{", "a", ",", "b", "+", "1", "}", ";">>,
    <<"assign", "b", "=", "b", "&&", "~", "a", ";">>,
    <<"always", "@", "(", "posedge", "a", "or", "b", ")", "a", "<=", "b", "<=", "1", ";">>,
    <<"always", "@", "(", "*", ")", "begin", "a", "=", "b", ";", "b", "=", "1", ";", "end">>,
    <<"always", "@", "(", "a", ")", "if", "(", "a", ")", "if", "(", "b", ")", "a", "=", "1", ";",
      "else", "b", "=", "2", ";">>,
    <<"always", "@", "(", "a", ")", "if", "(", "a", ")", "begin", "if", "(", "b", ")", "a", "=", "1", ";",
      "end", "else", "b", "=", "2", ";">>,
    <<"always", "@", "(", "a", ")", "case", "(", "a", ")", "1", ":", "b", "=", "a", ";",
      "default", ":", "b", "=", "2", ";", "endcase">> }
\* Texts of up to three fragments, comments closed and not, lines of them.
CONSTANT MaxErrors
SX == INSTANCE SequencesExt
Pieces ==
  { <<"a">>, <<"1">>, <<"o", "r">>, <<"1", "'", "h", "a", "_">>, <<"'", "s", "b", "x">>, <<".">>, <<" ">>, <<"nl">>,
    <<"/", "*">>, <<"*", "/">>, <<"/">>, <<"/", "*", "nl", "*", "/">>, <<"\"">>, <<"<">>, <<"=">>, <<"$">> }
Texts == {SX!FlattenSeq(<<p, q, r>>) : p, q, r \in Pieces}
VARIABLES text, lexer, tokens, source, root, errors, printed, expr, tree, symbols, instances, order, complete
Front == INSTANCE HdlFront
lexVars == <<text, lexer, tokens>>
frontVars == <<source, root, errors, printed, expr, tree, symbols, instances, order, complete>>

CONSTANTS Signals, Watched, Viewed, MaxProjected, Values, MaxClock, MaxTicks, MaxPending, MaxTurns, MaxSamples
Ba(lhs, rhs) == [kind |-> "BA", lhs |-> lhs, rhs |-> rhs, delay |-> 0]
Nba(lhs, rhs, delay) == [kind |-> "NBA", lhs |-> lhs, rhs |-> rhs, delay |-> delay]
On(kind, s) == [kind |-> kind, signal |-> s]
VsDesigns ==
  { [assigns |-> << >>,
     always |-> <<[sens |-> {On("POSEDGE", "p")}, stmts |-> <<Ba("q", "1"), Nba("q", "1", 1)>>],
                  [sens |-> {On("LEVEL", "q")}, stmts |-> <<Ba("p", "0"), Nba("p", "0", 2)>>]>>],
    [assigns |-> <<[lhs |-> "p", rhs |-> "0"], [lhs |-> "q", rhs |-> "1"]>>,
     always |-> <<[sens |-> {On("NEGEDGE", "p"), On("LEVEL", "q")},
                   stmts |-> <<Nba("q", "0", 0), Ba("q", "0"), Nba("p", "1", 3)>>]>>] }

Set(s, v, delay) == [kind |-> "ASSIGN", lhs |-> s, rhs |-> v, delay |-> delay]
If(s, yes, no) == [kind |-> "IF", lhs |-> s, yes |-> yes, no |-> no]
Proc(sens, stmts) == [sens |-> sens, stmts |-> stmts]
VhDesigns ==
  { [resolved |-> {"p", "q", "r"},
     processes |-> <<Proc({"q"}, <<If("q", 0, 3), Set("r", "1", 0)>>),
                     Proc({"p"}, <<If("p", 3, 0), Set("q", "0", 0), Set("q", "1", 0)>>),
                     Proc({"p", "r"}, <<>>)>>],
    [resolved |-> {"p", "q"},
     processes |-> <<Proc({"r"}, <<Set("q", "1", 0)>>), Proc({"p"}, <<Set("r", "1", 2)>>)>>],
    [resolved |-> {"p", "q"},
     processes |-> <<Proc({"p"}, <<Set("r", "0", 1), Set("r", "1", 1)>>), Proc({"r"}, <<If("r", 0, -1), Set("q", "1", 0)>>),
                     Proc({"p"}, <<Set("q", "0", 1)>>)>>] }

Block(kind, stmts) == [kind |-> kind, stmts |-> stmts]
SvDesigns ==
  { <<Block("COMB", <<Set("p", "0", 0), Set("q", "1", 0)>>), Block("FF", <<If("q", 2, 3), Set("p", "1", 0), Set("r", "0", 0)>>)>>,
    <<Block("FF", <<If("p", 3, 0), Set("r", "1", 0), Set("q", "0", 0)>>), Block("LATCH", <<Set("p", "0", 0)>>),
      Block("COMB", <<If("p", 3, 0), Set("q", "1", 0), Set("r", "0", 0)>>)>> }

Clock(s, period, duty, phase) == [signal |-> s, period |-> period, duty |-> duty, phase |-> phase]
Benches ==
  { [clocks |-> <<Clock("p", 4, d, f)>>, resets |-> <<[signal |-> "q", active |-> 2, level |-> v]>>,
     stimuli |-> <<st>>] :
      d \in {25, 50, 60}, f \in {0, 1, 3}, v \in {0, 1},
      st \in { [kind |-> "PULSE", signal |-> "r", value |-> 1, high |-> 1, low |-> 2],
               [kind |-> "SET", signal |-> "q", value |-> 1],
               [kind |-> "RANDOM", signal |-> "r", value |-> 1, max |-> 3, seed |-> 5],
               [kind |-> "INCREMENT", signal |-> "p", value |-> 0, incr |-> 2],
               [kind |-> "PATTERN", signal |-> "r", incr |-> 3] } }
VARIABLES vsDesign, vsNet, vsEvents, vsNow, vsEnd, vsStamps, vhDesign, vhSig, vhActive, vhTurn, vhUnseen,
          svDesign, svSig, svBlock, bench, tbTime, samples, waves, edges, read
Sims == INSTANCE HdlSims
vsVars == <<vsDesign, vsNet, vsEvents, vsNow, vsEnd, vsStamps>>
vhVars == <<vhDesign, vhSig, vhActive, vhTurn, vhUnseen>>
svVars == <<svDesign, svSig, svBlock>>
tbVars == <<bench, tbTime, samples>>
wvVars == <<waves, edges, read>>
simsVars == <<vsVars, vhVars, svVars, tbVars, wvVars>>

VARIABLE part
vars == <<part, lexVars, frontVars, simsVars>>

(* The designs of the parts that do not move are fixed. *)
Fixed(p, d, ds) == part = p \/ d = CHOOSE x \in ds : TRUE
Init ==
  /\ part \in {"lexer", "front", "sort", "verilog", "vhdl", "sv", "bench", "wave"}
  /\ Front!LexerInit /\ Front!FrontInit /\ Sims!SimsInit
  /\ Fixed("verilog", vsDesign, VsDesigns) /\ Fixed("vhdl", vhDesign, VhDesigns)
  /\ Fixed("sv", svDesign, SvDesigns) /\ Fixed("bench", bench, Benches)

LexerPart == part = "lexer" /\ Front!LexerNext /\ UNCHANGED <<frontVars, simsVars>>

DesignPart ==
  /\ \/ /\ part = "front" /\ expr = <<>> /\ UNCHANGED <<simsVars, instances, order, complete>>
        /\ \/ Front!WriteModule \/ Front!WriteItem \/ Front!Parse \/ Front!Generate \/ Front!Elaborate
     \/ part = "front" /\ source = <<>> /\ UNCHANGED simsVars /\ (Front!WriteExpr \/ Front!ReadExpr)
     \/ part = "sort" /\ UNCHANGED simsVars /\ (Front!BindInstance \/ Front!SortModules)
     \/ /\ part = "verilog" /\ Sims!VsNext
        /\ UNCHANGED <<frontVars, vhVars, svVars, tbVars, wvVars>>
     \/ /\ part = "vhdl" /\ Sims!VhNext
        /\ UNCHANGED <<frontVars, vsVars, svVars, tbVars, wvVars>>
     \/ /\ part = "sv" /\ Sims!SvNext
        /\ UNCHANGED <<frontVars, vsVars, vhVars, tbVars, wvVars>>
     \/ /\ part = "bench" /\ Sims!TbStep
        /\ UNCHANGED <<frontVars, vsVars, vhVars, svVars, wvVars>>
     \/ /\ part = "bench" /\ Sims!WvParse
        /\ UNCHANGED <<frontVars, vsVars, vhVars, svVars>>
     \/ /\ part = "wave" /\ Sims!WvNext
        /\ UNCHANGED <<frontVars, vsVars, vhVars, svVars, tbVars>>

Next == UNCHANGED part /\ (LexerPart \/ (DesignPart /\ UNCHANGED lexVars))

Spec == Init /\ [][Next]_vars
-----------------------------------------------------------------------------
(* FrontSound: tokens come in order, whole and on their line (TokensExact    *)
(* of HdlFront), what is parsed from them, printed and parsed again is the   *)
(* same, and modules are elaborated in their order (SourcesRead and          *)
(* OrderSound of HdlFront).                                                  *)
FrontSound == Front!TokensExact /\ Front!SourcesRead /\ Front!OrderSound

(* SimulatorsSound: updates come at their time, processes wake and delta     *)
(* loops end, and recorded waves are what was driven (TimelineKept,          *)
(* ProcessesWoken, DeltaEnds, WavesTrue, EdgesTrue of HdlSims).              *)
SimulatorsSound ==
  /\ Sims!TimelineKept /\ Sims!ProcessesWoken /\ Sims!DeltaEnds
  /\ Sims!WavesTrue /\ Sims!EdgesTrue

(* CombSettled, of systemverilog_sim.c: see HdlSims.                         *)
CombSettled == Sims!CombSettled
=============================================================================
