----------------------------- MODULE MCLh5801 -----------------------------
(***************************************************************************)
(* The CPU with a small ROM of programs in the PC-1500's own idioms - the  *)
(* decimal chains of its arithmetic, the digit shift of its mantissas, the *)
(* hexadecimal conversion of the repository's test, a tour of the rest -   *)
(* and three handlers, so that results say whether instructions are right  *)
(* and interrupts between any two of them harmless.                        *)
(***************************************************************************)
EXTENDS Lh5801, TLC

Code == <<
  \hAA, \h78, \h3F,                                              \* boot: LDI S,783FH
  \hB5, \h7F,                                                    \* LDI A,7FH: two ticks before 1FFH
  \hFD, \hCE,                                                    \* AM0
  \hFD, \h81,                                                    \* SIE
  \h48, \h78, \h4A, \h03,                                        \* LDI X,7803H
  \h58, \h78, \h5A, \h05,                                        \* LDI Y,7805H
  \h6A, \h01,                                                    \* LDI UL,01H
  \hA5, \h78, \h00,                                              \* LDA 7800H: which program
  \hB7, \h02,                                                    \* CPI A,02H
  \h8B, \h24,                                                    \* BZS ten
  \h81, \h08,                                                    \* BCR dec
  \hB7, \h03,                                                    \* CPI A,03H
  \h89, \h28,                                                    \* BZR tour
  \hCD, \h40,                                                    \* VMJ hex
  \h8E, \h56,                                                    \* BCH stop
  \hBF, \h01,                                                    \* dec: BII A,01H
  \h89, \h09,                                                    \* BZR sub
  \hF9,                                                          \* REC
  \h47, \h9C, \h1E, \h56,                                        \* addl: LDE X, DCA (Y), STA (Y), DEC Y
  \h88, \h06,                                                    \* LOP
  \h8E, \h49,                                                    \* BCH stop
  \h58, \hF0,                                                    \* sub: LDI YH,F0H
  \hFB,                                                          \* SEC
  \h47, \hFD, \h1C, \hFD, \h1E, \h56,                            \* subl: LDE X, DCS #(Y), STA #(Y), DEC Y
  \h88, \h08,                                                    \* LOP
  \h8E, \h3C,                                                    \* BCH stop
  \hA5, \h78, \h04, \hF1,                                        \* ten: LDA 7804H, AEX
  \hD7, \h46,                                                    \* tenl: DRL (X), DEC X
  \h88, \h04,                                                    \* LOP
  \h8E, \h32,                                                    \* BCH stop
  \hFD, \hC1, \hE1, \hA8,                                        \* tour: SDP, SPU, SPV
  \h05, \hFB, \hDB, \hD1,                                        \* LDA (X), SEC, ROL, ROR
  \hFD, \hC8, \hD9, \hD5, \hFD, \h8A,                            \* PSH A, SHL, SHR, POP A
  \hBD, \h55, \hBD, \h55,                                        \* EAI A,55H twice
  \h28, \h2A, \hFD, \hEA,                                        \* STA UH, STA UL, ADR U
  \h64, \h66, \hFD, \h60, \hFD, \h62, \h60, \h62,                \* INC, DEC U, UH, UL
  \h24, \hFB, \hA1, \h78, \h03,                                  \* LDA UL, SEC, SBC 7803H
  \hFD, \hC8, \hFD, \hAA, \hFD, \hEC, \hFD, \h8A,                \* PSH A, TTA, ATT, POP A
  \hF7, \h46, \h5A, \h06, \hF5, \h46, \hD3,                      \* CIN, DEC X, LDI YL,06H, TIN, DEC X, DRR (X)
  \hFD, \hB1,                                                    \* stop: HLT
  \h9E, \h04,                                                    \* BCH stop
  \h68, \h78, \h6A, \h06,                                        \* hex: LDI U,7806H
  \hA5, \h78, \h02, \h08, \hA5, \h78, \h03, \h0A,                \* LDA, STA XH, LDA, STA XL
  \h84, \hBE, \h40, \hA1, \h61, \h84, \hBE, \h40, \hA2, \h61,    \* LDA XH, SJP, SIN U, twice
  \h04, \hBE, \h40, \hA1, \h61, \h04, \hBE, \h40, \hA2, \h61,    \* LDA XL, SJP, SIN U, twice
  \h69, \h00, \h9A,                                              \* ANI (U),00H, RTN
  \hF1,                                                          \* dhi: AEX
  \hB9, \h0F, \hB7, \h0A,                                        \* dlo: ANI A,0FH, CPI A,0AH
  \h83, \h03, \hB3, \h30, \h9A,                                  \* BCS +3, ADI A,30H, RTN
  \hB3, \h36, \h9A,                                              \* ADI A,36H, RTN
  \hFD, \hC8, \hFD, \h98, \hFB,                                  \* mi: PSH A, PSH Y, SEC
  \hB5, \h99, \hDD, \hFD, \h5A,                                  \* LDI A,99H, INC A, STX Y
  \hFD, \h1A, \hFD, \h8A, \h8A,                                  \* POP Y, POP A, RTI
  \hFD, \hC8, \hEF, \h78, \h01, \h01,                            \* timer: PSH A, ADI 7801H,01H
  \hB5, \h00, \hFD, \hCE, \hFD, \h8A, \h8A,                      \* LDI A,00H, AM0, POP A, RTI
  \hFD, \h88, \hFD, \hA8, \hF9,                                  \* nmi: PSH X, PSH U, REC
  \h48, \h00, \h62,                                              \* LDI XH,00H, DEC UL
  \hFD, \h2A, \hFD, \h0A, \h8A                                   \* POP U, POP X, RTI
>>
Base == \h4000
Stop == \h407A  \* the HLT every program ends at

\* Vectors: VMJ 40H, MI, timer, NMI, reset.
Vectored == <<<<\hFF40, \h407E>>, <<\hFFF8, \h40AE>>, <<\hFFFA, \h40BD>>,
              <<\hFFFC, \h40CA>>, <<\hFFFE, Base>>>>
MCRom ==
  [at \in Base..(Base + Len(Code) - 1) |-> Code[at - Base + 1]]
    @@ [at \in \hFF40..\hFF41 \cup \hFFF8..\hFFFF |->
          LET v == CHOOSE i \in 1..5 : at - Vectored[i][1] \in {0, 1} IN
          IF at = Vectored[v][1] THEN Hi(Vectored[v][2]) ELSE Lo(Vectored[v][2])]

\* Two bytes of BCD for a number below ten thousand, and back.
Bcd(v) == 
  <<16 * (v \div 1000) + ((v \div 100) % 10), 16 * ((v \div 10) % 10) + (v % 10)>>
Number(hi, lo) ==
  1000 * (hi \div 16) + 100 * (hi % 16) + 10 * (lo \div 16) + (lo % 16)

\* A program, its operands, how often the pins ask and the timer ticks.  P
\* is two bytes at 7802H, Q two at 7804H; ME1 holds both again at F002H.
Case(which, p, q, reqs, ticks) ==
  [ram |-> [at \in \h7800..\h780A \cup \h782C..\h783F |->
              CASE at = \h7800 -> which [] at \in \h7802..\h7803 -> p[at - \h7801]
                [] at \in \h7804..\h7805 -> q[at - \h7803] [] OTHER -> 0],
   ports |-> [at \in \hF002..\hF005 |-> (p \o q)[at - \hF001]],
   requests |-> reqs, ticks |-> ticks]

Decimals == {0, 1, 5, 9, 10, 49, 50, 95, 99, 100, 4999, 5000, 9899, 9900, 9999}
Bytes    == {0, 1, 15, 16, 85, 127, 128, 165, 170, 254, 255}

MCInputs ==
  {Case(w, Bcd(p), Bcd(q), 0, 0) : w \in {0, 1}, p \in Decimals, q \in Decimals}
    \cup {Case(2, Bcd(p), <<d, 0>>, 0, 0) : p \in Decimals, d \in 0..9}
    \cup {Case(3, <<h, l>>, <<0, 0>>, 0, 0) : h \in {9, 175}, l \in {10, 240}}
    \cup {Case(4, <<0, b>>, <<0, 0>>, 0, 0) : b \in Bytes}
    \cup {Case(0, Bcd(4999), Bcd(5001), 2, 0), Case(1, Bcd(100), Bcd(9899), 1, 2),
          Case(2, Bcd(1234), <<5, 0>>, 1, 2), Case(4, <<0, 165>>, <<0, 0>>, 2, 0),
          Case(3, <<175, 240>>, <<0, 0>>, 1, 0)}

-----------------------------------------------------------------------------
Ascii(digit) == digit + IF digit < 10 THEN 48 ELSE 55

\* What the programs are for, whatever interrupted them: decimal sums and
\* differences with their carry, a mantissa times ten plus a digit, a word's
\* four hexadecimal digits, and a byte that survives the tour.
ResultsRight ==
  LET ram(at) == Number(m.me0[at], m.me0[at + 1])
      port(at) == Number(m.me1[at], m.me1[at + 1])
      was == m.me1[\hF003]
  IN m.p \in {Stop, Stop + 2} /\ interrupted = <<>> =>
       CASE m.me0[\h7800] = 0 ->
              /\ ram(\h7804) = (ram(\h7802) + port(\hF004)) % 10000
              /\ m.f.c = (ram(\h7802) + port(\hF004) > 9999)
         [] m.me0[\h7800] = 1 ->
              /\ port(\hF004) = (10000 + ram(\h7802) - ram(\h7804)) % 10000
              /\ m.f.c = (ram(\h7802) >= ram(\h7804))
         [] m.me0[\h7800] = 2 ->
              ram(\h7802) = (10 * port(\hF002) + m.me0[\h7804]) % 10000
         [] m.me0[\h7800] = 3 ->
              /\ \A i \in 0..1 : LET v == m.me0[\h7802 + i] IN
                   /\ m.me0[\h7806 + 2 * i] = Ascii(v \div 16)
                   /\ m.me0[\h7807 + 2 * i] = Ascii(v % 16)
              /\ m.me0[\h780A] = 0
         [] OTHER ->
              /\ m.a = was /\ m.me0[\h7806] = was /\ m.me0[\h7803] = Swap(was)
              /\ m.pu /\ m.pv /\ m.disp
=============================================================================
