--------------------------- MODULE KernalIOProofs ---------------------------
(***************************************************************************)
(* Proofs about KernalIO, for all inputs, of any length, and any timing.   *)
(***************************************************************************)
EXTENDS KernalIO, SequenceTheorems, TLAPS

LEMMA Translations ==
  \A c \in Chars : /\ FromASCII(c) \in Chars /\ ToASCII(c) \in Chars
                   /\ (FromASCII(c) = "NUL" <=> c = "NUL")
                   /\ (ToASCII(c) = "NUL" <=> c = "NUL")
  BY DEF Chars, FromASCII, ToASCII

LEMMA TypeInit == Init => TypeOK
<1> SUFFICES ASSUME Init PROVE TypeOK
  OBVIOUS
<1>1. input \in Seq(Chars) /\ 0 \in 0 .. MaxGap /\ 0 \in 0 .. MaxCalls
  BY KernalAssumption DEF Init
<1>2. output \in Seq(Chars)
  <2>1. output = <<>>
    BY DEF Init
  <2> QED BY <2>1
<1>3. /\ sel \in Selects /\ io \in Chars /\ ack \in 0 .. 255
      /\ lastChar \in Chars /\ acc \in Chars /\ operand \in 0 .. 255
      /\ pc \in Labels /\ gap = 0 /\ turn = "cpu" /\ eof = FALSE /\ calls = 0
  BY DEF Init, Selects, Labels, Chars
<1> QED BY <1>1, <1>2, <1>3 DEF TypeOK

LEMMA TypeStep == TypeOK /\ [Next]_vars => TypeOK'
<1> SUFFICES ASSUME TypeOK, [Next]_vars PROVE TypeOK'
  OBVIOUS
<1> USE DEF TypeOK
<1>0. /\ 0 \in 0 .. MaxGap
      /\ 1 .. MaxGap \subseteq 0 .. MaxGap
      /\ gap \in 0 .. MaxGap /\ gap > 0 => gap - 1 \in 0 .. MaxGap
  BY KernalAssumption
<1>1. ASSUME NEW label \in Labels, Call(label)
      PROVE  calls' \in 0 .. MaxCalls /\ pc' \in Labels /\ gap' \in 0 .. MaxGap
  BY <1>0, <1>1, KernalAssumption DEF Call, Goto, Cycle
<1>2. CASE AppCycle
  BY <1>0, <1>2 DEF AppCycle, Return, registers, files, Labels
<1>3. CASE CallChrin
  BY <1>1, <1>3 DEF CallChrin, Call, Goto, registers, files, Labels
<1>4. CASE CallNotImplemented
  BY <1>1, <1>4 DEF CallNotImplemented, Call, Goto, registers, files, Labels
<1>5. ASSUME NEW c \in Chars, CallChrout(c) PROVE TypeOK'
  BY <1>1, <1>5 DEF CallChrout, Call, Goto, registers, files, Labels
<1>6. CASE OtherCycle
  BY <1>0, <1>6 DEF OtherCycle, registers, files
<1>7. CASE NotImplemented
  BY <1>0, <1>7 DEF NotImplemented, Return, files, Labels, Selects
<1>8. CASE ChrinSelect
  BY <1>0, <1>8 DEF ChrinSelect, Goto, files, Labels, Selects
<1>9. CASE ChrinPoll
  BY <1>0, <1>9 DEF ChrinPoll, Goto, registers, files, Labels
<1>10. CASE AckRead
  BY <1>0, <1>10 DEF AckRead, Follow, registers, files, Labels
<1>11. CASE AckOld
  BY <1>0, <1>11 DEF AckOld, Follow, files, Labels
<1>12. CASE AckNew
  <2>1. (operand + 1) % 256 \in 0 .. 255
    OBVIOUS
  <2> QED BY <1>0, <1>12, <2>1 DEF AckNew, Goto, files, Labels
<1>13. CASE ChrinReturn
  BY <1>0, <1>13, Translations DEF ChrinReturn, Return, registers, files, Labels
<1>14. CASE ChroutDrop
  BY <1>0, <1>14 DEF ChroutDrop, Return, registers, files, Labels, Chars
<1>15. CASE ChroutSelect
  BY <1>0, <1>15 DEF ChroutSelect, Goto, files, Labels, Selects
<1>16. CASE ChroutWrite
  BY <1>0, <1>16, Translations DEF ChroutWrite, Goto, files, Labels
<1>17. CASE ChroutReturn
  BY <1>0, <1>17 DEF ChroutReturn, Return, registers, files, Labels
<1>18. CASE HostFetch
  <2>1. Head(input) \in Chars /\ Tail(input) \in Seq(Chars)
    BY <1>18 DEF HostFetch
  <2> QED BY <1>18, <2>1 DEF HostFetch, Host
<1>19. CASE HostEndOfFile
  BY <1>19 DEF HostEndOfFile, Host, registers
<1>20. CASE HostAwaitAck \/ HostAwaitChar \/ HostIdle
  BY <1>20 DEF HostAwaitAck, HostAwaitChar, HostIdle, Host, registers, files
<1>21. CASE HostAcked \/ HostNotImplemented
  <2>1. UNCHANGED <<lastChar, acc, operand, pc, gap, calls, files>> /\ turn' = "cpu"
    BY <1>21 DEF HostAcked, HostNotImplemented, Host
  <2>2. sel' = "none" /\ io' = "NUL" /\ ack' = 0
    BY <1>21 DEF HostAcked, HostNotImplemented, ClearAll
  <2> QED BY <2>1, <2>2 DEF files, Selects, Chars
<1>22. CASE HostPrint
  <2>1. output' \in Seq(Chars)
    BY <1>22 DEF HostPrint
  <2> QED BY <1>22, <2>1 DEF HostPrint, Host, ClearAll, Selects, Chars
<1>23. CASE UNCHANGED vars
  BY <1>23 DEF vars, registers, files
<1> QED BY <1>2, <1>3, <1>4, <1>5, <1>6, <1>7, <1>8, <1>9, <1>10, <1>11, <1>12, <1>13,
           <1>14, <1>15, <1>16, <1>17, <1>18, <1>19, <1>20, <1>21, <1>22, <1>23
        DEF Next, Program, Kernal, OnCPUCycle

(* The registers and variables of both sides keep to their values. *)
THEOREM KernalTypeCorrect == Spec => []TypeOK
BY TypeInit, TypeStep, PTL DEF Spec

-----------------------------------------------------------------------------
(* The handshake, access by access. *)

LEMMA HandshakeInit == Init => Handshake
  BY DEF Init, Handshake, Cleared

LEMMA HandshakeStep == TypeOK /\ Handshake /\ [Next]_vars => Handshake'
<1> SUFFICES ASSUME TypeOK, Handshake, [Next]_vars PROVE Handshake'
  OBVIOUS
<1> USE DEF Handshake, Cleared
<1>1. CASE AppCycle
  BY <1>1 DEF AppCycle, Cycle, Return, registers, files
<1>2. ASSUME NEW label \in {"not_implemented", "chrin", "chrout"}, Call(label)
      PROVE  Handshake'
  BY <1>2 DEF Call, Cycle, Goto, registers, files
<1>3. CASE OtherCycle
  BY <1>3 DEF OtherCycle, registers, files
<1>4. CASE NotImplemented
  BY <1>4 DEF NotImplemented, Cycle, Return, files
<1>5. CASE ChrinSelect
  BY <1>5 DEF ChrinSelect, Cycle, Goto, files
<1>6. CASE ChrinPoll
  BY <1>6 DEF ChrinPoll, Cycle, Goto, registers, files
<1>7. CASE AckRead
  BY <1>7 DEF AckRead, Cycle, Follow, registers, files
<1>8. CASE AckOld
  BY <1>8 DEF AckOld, Cycle, Follow, files
<1>9. CASE AckNew
  <2>1. ack' = 1
    BY <1>9 DEF AckNew, Cycle
  <2> QED BY <1>9, <2>1 DEF AckNew, Cycle, Goto, files
<1>10. CASE ChrinReturn
  BY <1>10 DEF ChrinReturn, Cycle, Return, registers, files
<1>11. CASE ChroutDrop
  BY <1>11 DEF ChroutDrop, Cycle, Return, registers, files
<1>12. CASE ChroutSelect
  BY <1>12 DEF ChroutSelect, Cycle, Goto, files
<1>13. CASE ChroutWrite
  BY <1>13 DEF ChroutWrite, Cycle, Goto, files
<1>14. CASE ChroutReturn
  BY <1>14 DEF ChroutReturn, Cycle, Return, registers, files
<1>15. CASE HostFetch
  BY <1>15 DEF HostFetch, Host
<1>16. CASE HostEndOfFile
  BY <1>16 DEF HostEndOfFile, Host, registers
<1>17. CASE HostAwaitAck
  BY <1>17 DEF HostAwaitAck, Host, registers, files
<1>18. CASE HostAcked
  BY <1>18 DEF HostAcked, Host, ClearAll, files
<1>19. CASE HostPrint
  BY <1>19 DEF HostPrint, Host, ClearAll
<1>20. CASE HostAwaitChar
  BY <1>20 DEF HostAwaitChar, Host, registers, files
<1>21. CASE HostNotImplemented
  BY <1>21 DEF HostNotImplemented, Host, ClearAll, files
<1>22. CASE HostIdle
  BY <1>22 DEF HostIdle, Host, registers, files
<1>23. CASE UNCHANGED vars
  BY <1>23 DEF vars, registers, files
<1> QED BY <1>1, <1>2, <1>3, <1>4, <1>5, <1>6, <1>7, <1>8, <1>9, <1>10, <1>11, <1>12, <1>13,
           <1>14, <1>15, <1>16, <1>17, <1>18, <1>19, <1>20, <1>21, <1>22, <1>23
        DEF Next, Program, Kernal, OnCPUCycle, CallChrin, CallNotImplemented, CallChrout

LEMMA HandshakeCorrect == Spec => [](TypeOK /\ Handshake)
BY TypeInit, TypeStep, HandshakeInit, HandshakeStep, PTL DEF Spec

(* The host never prints a byte other than the one chrout has just stored. *)
THEOREM PrintsRight == Spec => []PrintsWhatWasWritten
<1>1. TypeOK /\ Handshake => PrintsWhatWasWritten
  BY DEF TypeOK, Labels, Handshake, Cleared, PrintsWhatWasWritten
<1> QED BY HandshakeCorrect, <1>1, PTL

(* Every call leaves IO and ACK clear for the next. *)
THEOREM RestsClear == Spec => []AtRest
<1>1. Handshake => AtRest
  BY DEF Handshake, Cleared, AtRest
<1> QED BY HandshakeCorrect, <1>1, PTL

-----------------------------------------------------------------------------
(* The refinement: a step of the CPU or the host is a step of Terminal,    *)
(* with the call in progress read off the registers, or no step at all.    *)

Absent == <<"none", "NUL">>

LEMMA CallAt ==
  ASSUME TypeOK
  PROVE  /\ pc \in {"app", "not_implemented"} => CallInProgress = Absent
         /\ pc \in {"chrin", "io_loop"} /\ io = "NUL" => CallInProgress = <<"chrin", "NUL">>
         /\ pc \in {"chrin", "io_loop"} /\ io # "NUL" =>
              CallInProgress = <<"taken", FromASCII(io)>>
         /\ pc \in {"ack_read", "ack_old", "ack_new", "return"} =>
              CallInProgress = <<"taken", FromASCII(acc)>>
         /\ pc \in {"chrout", "write"} => CallInProgress = <<"chrout", acc>>
         /\ pc = "written" /\ turn = "host" /\ sel = "CHROUT" /\ io # "NUL" =>
              CallInProgress = <<"chrout", acc>>
         /\ pc = "written" /\ ~(turn = "host" /\ sel = "CHROUT" /\ io # "NUL") =>
              CallInProgress = <<"put", acc>>
  BY DEF CallInProgress, Absent

LEMMA CallAtPrimed ==
  ASSUME TypeOK'
  PROVE  /\ pc' \in {"app", "not_implemented"} => CallInProgress' = Absent
         /\ pc' \in {"chrin", "io_loop"} /\ io' = "NUL" => CallInProgress' = <<"chrin", "NUL">>
         /\ pc' \in {"chrin", "io_loop"} /\ io' # "NUL" =>
              CallInProgress' = <<"taken", FromASCII(io')>>
         /\ pc' \in {"ack_read", "ack_old", "ack_new", "return"} =>
              CallInProgress' = <<"taken", FromASCII(acc')>>
         /\ pc' \in {"chrout", "write"} => CallInProgress' = <<"chrout", acc'>>
         /\ pc' = "written" /\ turn' = "host" /\ sel' = "CHROUT" /\ io' # "NUL" =>
              CallInProgress' = <<"chrout", acc'>>
         /\ pc' = "written" /\ ~(turn' = "host" /\ sel' = "CHROUT" /\ io' # "NUL") =>
              CallInProgress' = <<"put", acc'>>
  BY DEF CallInProgress, Absent

LEMMA RefinementInit == Init => T!TInit
<1> SUFFICES ASSUME Init PROVE T!TInit
  OBVIOUS
<1>1. CallInProgress = Absent
  BY DEF Init, CallInProgress, Absent
<1>2. T!NoCall = Absent
  BY DEF T!NoCall, Absent
<1> QED BY <1>1, <1>2 DEF Init, T!TInit

(* Steps that Terminal does not see. *)
LEMMA Unseen ==
  ASSUME UNCHANGED <<input, eof, output, lastChar>>, CallInProgress' = CallInProgress
  PROVE  [T!TNext]_(T!tvars)
  BY DEF T!tvars

LEMMA RefinementStep ==
  TypeOK /\ Handshake /\ TypeOK' /\ Handshake' /\ [Next]_vars => [T!TNext]_(T!tvars)
<1> SUFFICES ASSUME TypeOK, Handshake, TypeOK', Handshake', [Next]_vars
             PROVE  [T!TNext]_(T!tvars)
  OBVIOUS
<1>1. CASE AppCycle
  BY <1>1, CallAt, CallAtPrimed, Unseen DEF AppCycle, Cycle, Return, registers, files
<1>2. CASE CallChrin
  <2>1. pc = "app" /\ pc' = "chrin" /\ io' = io /\ io = "NUL"
    BY <1>2 DEF CallChrin, Call, Cycle, Goto, registers, Handshake, Cleared
  <2>3. CallInProgress = Absent /\ CallInProgress' = <<"chrin", "NUL">>
    BY <2>1, CallAt, CallAtPrimed
  <2>2. T!Chrin /\ ~eof
    BY <1>2, <2>3 DEF CallChrin, Call, Cycle, files, T!Chrin, T!NoCall, Absent
  <2> QED BY <2>2 DEF T!TNext
<1>3. CASE CallNotImplemented
  BY <1>3, CallAt, CallAtPrimed, Unseen DEF CallNotImplemented, Call, Cycle, Goto, files
<1>4. ASSUME NEW c \in Chars, CallChrout(c) PROVE [T!TNext]_(T!tvars)
  <2>1. CallInProgress = Absent /\ CallInProgress' = <<"chrout", c>>
    BY <1>4, CallAt, CallAtPrimed DEF CallChrout, Call, Cycle, Goto
  <2>2. T!Chrout(c) /\ ~eof
    BY <1>4, <2>1 DEF CallChrout, Call, Cycle, files, T!Chrout, T!NoCall, Absent
  <2> QED BY <2>2 DEF T!TNext, T!Chars, Chars
<1>5. CASE OtherCycle
  <2>1. UNCHANGED <<input, eof, output, lastChar, pc, io, acc, sel>> /\ turn = "cpu"
    BY <1>5 DEF OtherCycle, registers, files
  <2>2. pc = "written" => io = "NUL"
    BY <2>1 DEF Handshake, Cleared
  <2>3. CallInProgress' = CallInProgress
    BY <2>1, <2>2, CallAt, CallAtPrimed DEF TypeOK, Labels
  <2> QED BY <2>1, <2>3, Unseen
<1>6. CASE NotImplemented
  BY <1>6, CallAt, CallAtPrimed, Unseen DEF NotImplemented, Cycle, Return, files
<1>7. CASE ChrinSelect
  BY <1>7, CallAt, CallAtPrimed, Unseen DEF ChrinSelect, Cycle, Goto, files
<1>8. CASE ChrinPoll
  <2>1. UNCHANGED <<input, eof, output, lastChar, io>> /\ acc' = io /\ pc = "io_loop"
        /\ pc' = IF io = "NUL" THEN "io_loop" ELSE "ack_read"
    BY <1>8 DEF ChrinPoll, Cycle, Goto, registers, files
  <2>2. CallInProgress' = CallInProgress
    BY <2>1, CallAt, CallAtPrimed
  <2> QED BY <2>1, <2>2, Unseen
<1>9. CASE AckRead \/ AckOld \/ AckNew
  <2>1. /\ UNCHANGED <<input, eof, output, lastChar, acc>>
        /\ pc \in {"ack_read", "ack_old", "ack_new"} /\ pc' \in {"ack_old", "ack_new", "return"}
    BY <1>9 DEF AckRead, AckOld, AckNew, Cycle, Goto, Follow, files
  <2>2. CallInProgress' = CallInProgress
    BY <2>1, CallAt, CallAtPrimed
  <2> QED BY <2>1, <2>2, Unseen
<1>10. CASE ChrinReturn
  <2>1. CallInProgress = <<"taken", FromASCII(acc)>> /\ CallInProgress' = Absent
    BY <1>10, CallAt, CallAtPrimed DEF ChrinReturn, Cycle, Return
  <2>2. T!ReturnTaken /\ ~eof
    BY <1>10, <2>1 DEF ChrinReturn, Cycle, files, T!ReturnTaken, T!NoCall, Absent
  <2> QED BY <2>2 DEF T!TNext
<1>11. CASE ChroutDrop
  <2>1. CallInProgress = <<"chrout", "CR">> /\ CallInProgress' = Absent
    BY <1>11, CallAt, CallAtPrimed DEF ChroutDrop, Cycle, Return
  <2>2. T!Drop /\ ~eof
    BY <1>11, <2>1 DEF ChroutDrop, Cycle, files, T!Drop, T!NoCall, Absent
  <2> QED BY <2>2 DEF T!TNext
<1>12. CASE ChroutSelect
  BY <1>12, CallAt, CallAtPrimed, Unseen DEF ChroutSelect, Cycle, Goto, files
<1>13. CASE ChroutWrite
  <2>1. /\ UNCHANGED <<input, eof, output, lastChar, acc, sel>> /\ ~eof
        /\ pc = "write" /\ pc' = "written" /\ turn' = "host" /\ io' = ToASCII(acc)
    BY <1>13 DEF ChroutWrite, Cycle, Goto, files
  <2>2. /\ sel = "CHROUT" /\ CallInProgress = <<"chrout", acc>>
        /\ ~(acc = "CR" /\ lastChar = "CR")
    BY <2>1, CallAt DEF Handshake
  <2>3. CASE acc = "NUL"
    <3>1. CallInProgress' = <<"put", acc>>
      BY <2>1, <2>3, Translations, CallAtPrimed DEF TypeOK
    <3>2. T!Put
      BY <2>1, <2>2, <2>3, <3>1 DEF T!Put
    <3> QED BY <2>1, <3>2 DEF T!TNext
  <2>4. CASE acc # "NUL"
    <3>1. io' # "NUL"
      BY <2>1, <2>4, Translations DEF TypeOK
    <3>2. CallInProgress' = CallInProgress
      BY <2>1, <2>2, <3>1, CallAtPrimed
    <3> QED BY <2>1, <3>2, Unseen
  <2> QED BY <2>3, <2>4
<1>14. CASE ChroutReturn
  <2>1. CallInProgress = <<"put", acc>> /\ CallInProgress' = Absent
    BY <1>14, CallAt, CallAtPrimed DEF ChroutReturn, Cycle, Return
  <2>2. T!ReturnPut /\ ~eof
    BY <1>14, <2>1 DEF ChroutReturn, Cycle, files, T!ReturnPut, T!NoCall, Absent
  <2> QED BY <2>2 DEF T!TNext
<1>15. CASE HostFetch
  <2>1. pc = "io_loop" /\ io = "NUL" /\ input # <<>> /\ ~eof
        /\ UNCHANGED <<eof, output, lastChar, acc, pc>>
        /\ input' = Tail(input) /\ io' = Head(input)
    BY <1>15 DEF HostFetch, Host, Handshake, Cleared, TypeOK, Labels
  <2>2. CallInProgress = <<"chrin", "NUL">>
        /\ CallInProgress' = IF Head(input) = "NUL" THEN <<"chrin", "NUL">>
                             ELSE <<"taken", FromASCII(Head(input))>>
    BY <2>1, CallAt, CallAtPrimed
  <2>3. T!Take
    BY <2>1, <2>2 DEF T!Take, T!FromASCII, FromASCII
  <2> QED BY <2>1, <2>3 DEF T!TNext
<1>16. CASE HostEndOfFile
  <2>1. pc = "io_loop" /\ io = "NUL" /\ input = <<>> /\ ~eof /\ eof' = TRUE
        /\ UNCHANGED <<input, output, lastChar, pc, io>>
    BY <1>16 DEF HostEndOfFile, Host, registers, Handshake, Cleared, TypeOK, Labels
  <2>2. CallInProgress = <<"chrin", "NUL">> /\ CallInProgress' = <<"chrin", "NUL">>
    BY <2>1, CallAt, CallAtPrimed
  <2>3. T!End
    BY <2>1, <2>2 DEF T!End
  <2> QED BY <2>1, <2>3 DEF T!TNext
<1>17. CASE HostAwaitAck \/ HostAwaitChar \/ HostIdle \/ HostNotImplemented
  <2>1. /\ UNCHANGED <<input, eof, output, lastChar, acc, pc>>
        /\ io' = io \/ (sel = "NOT_IMPL" /\ io' = "NUL")
        /\ ~(sel = "CHROUT" /\ io # "NUL") /\ turn' = "cpu"
    BY <1>17 DEF HostAwaitAck, HostAwaitChar, HostIdle, HostNotImplemented, Host, ClearAll,
                 registers, files
  <2>2. sel = "NOT_IMPL" => pc = "app"
    BY DEF Handshake, Cleared, TypeOK, Labels
  <2>3. CallInProgress' = CallInProgress
    <3>1. CASE pc = "app"
      BY <2>1, <3>1, CallAt, CallAtPrimed
    <3>2. CASE pc # "app"
      BY <2>1, <2>2, <3>2, CallAt, CallAtPrimed DEF TypeOK, Labels
    <3> QED BY <3>1, <3>2
  <2> QED BY <2>1, <2>3, Unseen
<1>18. CASE HostAcked
  <2>1. /\ UNCHANGED <<input, eof, output, lastChar, acc, pc>>
        /\ sel = "CHRIN" /\ ack # 0
    BY <1>18 DEF HostAcked, Host, files
  <2>2. pc = "return"
    BY <2>1 DEF Handshake, Cleared, TypeOK, Labels
  <2>3. CallInProgress' = CallInProgress
    BY <2>1, <2>2, CallAt, CallAtPrimed
  <2> QED BY <2>1, <2>3, Unseen
<1>19. CASE HostPrint
  <2>1. /\ UNCHANGED <<input, eof, lastChar, acc, pc>> /\ ~eof
        /\ sel = "CHROUT" /\ io # "NUL" /\ turn = "host" /\ turn' = "cpu"
        /\ output' = Append(output, io)
    BY <1>19 DEF HostPrint, Host, Handshake
  <2>2. pc = "written" /\ io = ToASCII(acc) /\ acc # "NUL"
    BY <2>1, Translations DEF Handshake, Cleared, TypeOK, Labels
  <2>3. /\ CallInProgress = <<"chrout", acc>> /\ CallInProgress' = <<"put", acc>>
        /\ ~(acc = "CR" /\ lastChar = "CR")
    BY <2>1, <2>2, CallAt, CallAtPrimed DEF Handshake
  <2>4. T!Put
    BY <2>1, <2>2, <2>3 DEF T!Put, T!ToASCII, ToASCII
  <2> QED BY <2>1, <2>4 DEF T!TNext
<1>20. CASE UNCHANGED vars
  BY <1>20, Unseen DEF vars, registers, files, CallInProgress
<1> QED BY <1>1, <1>2, <1>3, <1>4, <1>5, <1>6, <1>7, <1>8, <1>9, <1>10, <1>11, <1>12, <1>13,
           <1>14, <1>15, <1>16, <1>17, <1>18, <1>19, <1>20
        DEF Next, Program, Kernal, OnCPUCycle

(* Whatever the timing, the 6502 code and the host together are the        *)
(* terminal that Terminal describes.                                       *)
THEOREM KernalRefinesTerminal == Spec => ImplementsTerminal
BY HandshakeCorrect, RefinementInit, RefinementStep, PTL DEF Spec, ImplementsTerminal, T!TSpec
=============================================================================
