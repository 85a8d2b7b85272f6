----------------------------- MODULE EZ80Opcodes ------------------------------
(***************************************************************************)
(* The opcode tables of the eZ80: opcodes_ez80.cpp.  One definition per table, *)
(* in the order of the file; the rows stand in the order they are tried in. *)
(***************************************************************************)
EXTENDS OpcodeRows

cp_instrs == AluRows(\hB8, Reg8)
di_instrs == Plain(<<\hF3>>)
ei_instrs == Plain(<<\hFB>>)
ex_instrs == ExchangeRows
im_instrs == InterruptModeRows
in_instrs ==
  LET Both(r) == << Row(<<r, "(C)">>, <<\h40 + Code(r) * 8, \hED>>, 2),
                    Row(<<r, "(BC)">>, <<\h40 + Code(r) * 8, \hED>>, 2) >>
  IN Both("A") \o << Row(<<"A", "(&)">>, <<\hDB>>, 2) >>
       \o FlattenSeq([i \in 1..6 |-> Both(Reg8[i])])
       \o << Row(<<"F", "(C)">>, <<\h70, \hED>>, 2), Row(<<"F", "(BC)">>, <<\h70, \hED>>, 2),
             Row(<<"(C)">>, <<\h70, \hED>>, 2), Row(<<"(BC)">>, <<\h70, \hED>>, 2) >>
jp_instrs == JumpRows
jr_instrs == RelativeJumpRows
\* The table of ld, in the parts it consists of: register pairs through HL, IX
\* and IY first.
ld_pairs ==
     << Row(<<"SP", "HL">>, <<\hF9>>, 1) >>
  \o FlattenSeq([i \in 1..3 |->
       << Row(<<Reg16[i], "(HL)">>, <<\h07 + (i - 1) * 16, \hED>>, 2),
          Row(<<"(HL)", Reg16[i]>>, <<\h0F + (i - 1) * 16, \hED>>, 2) >>])
  \o << Row(<<"IY", "(HL)">>, <<\h31, \hED>>, 2), Row(<<"IX", "(HL)">>, <<\h37, \hED>>, 2),
        Row(<<"(HL)", "IY">>, <<\h3E, \hED>>, 2), Row(<<"(HL)", "IX">>, <<\h3F, \hED>>, 2) >>
ld_pairs_index ==
  LET Through(x, other) ==
           FlattenSeq([i \in 1..3 |->
             << Row(<<Reg16[i], x.m>>, <<\h07 + (i - 1) * 16, x.prefix>>, 3),
                Row(<<x.m, Reg16[i]>>, <<\h0F + (i - 1) * 16, x.prefix>>, 3) >>])
        \o << Row(<<other.r, x.m>>, <<\h31, x.prefix>>, 3), Row(<<x.r, x.m>>, <<\h37, x.prefix>>, 3),
              Row(<<x.m, other.r>>, <<\h3E, x.prefix>>, 3), Row(<<x.m, x.r>>, <<\h3F, x.prefix>>, 3) >>
  IN Through(IX, IY) \o Through(IY, IX)
ld_special ==
  << Row(<<"A", "I">>, <<\h57, \hED>>, 2), Row(<<"A", "R">>, <<\h5F, \hED>>, 2),
     Row(<<"A", "MB">>, <<\h6E, \hED>>, 2), Row(<<"I", "HL">>, <<\hC7, \hED>>, 2),
     Row(<<"HL", "I">>, <<\hD7, \hED>>, 2) >>
ld_index == LdIndexRows
\* Four rows are commented out, those of 40, 49, 52 and 5B: the suffixes.
ld_register ==
  SelectSeq(LdRegisterRows, LAMBDA row : \A i \in 1..4 : row.args # <<Reg8[i], Reg8[i]>>)
ld_memory == LdMemoryRows
ld_word == << Row(<<"MB", "A">>, <<\h6D, \hED>>, 2) >> \o LdStackPointerRows \o LdWordRows
ld_instrs == ld_pairs \o ld_pairs_index \o ld_special \o ld_index \o ld_register \o ld_memory \o ld_word
or_instrs == AluRows(\hB0, Reg8)
rl_instrs == RotateRows(\h10)
rr_instrs == RotateRows(\h18)
adc_instrs == CarryRows(\h88, \h4A)
add_instrs == AddRows
and_instrs == AluRows(\hA0, Reg8)
bit_instrs == BitRows(\h40)
ccf_instrs == Plain(<<\h3F>>)
cpd_instrs == Plain(<<\hA9, \hED>>)
cpi_instrs == Plain(<<\hA1, \hED>>)
cpl_instrs == Plain(<<\h2F>>)
daa_instrs == Plain(<<\h27>>)
dec_instrs == DecRows
exx_instrs == Plain(<<\hD9>>)
inc_instrs == IncRows
in0_instrs ==
     [i \in 1..6 |-> Row(<<Reg8[i], "(&)">>, <<(i - 1) * 8, \hED>>, 3)]
  \o << Row(<<"A", "(&)">>, <<\h38, \hED>>, 3), Row(<<"F", "(&)">>, <<\h30, \hED>>, 3),
        Row(<<"(&)">>, <<\h30, \hED>>, 3) >>
ind_instrs == Plain(<<\hAA, \hED>>)
ini_instrs == Plain(<<\hA2, \hED>>)
ldd_instrs == Plain(<<\hA8, \hED>>)
ldi_instrs == Plain(<<\hA0, \hED>>)
lea_instrs ==
     FlattenSeq([i \in 1..3 |->
       << Row(<<Reg16[i], "IX@">>, <<\h02 + (i - 1) * 16, \hED>>, 3),
          Row(<<Reg16[i], "IY@">>, <<\h03 + (i - 1) * 16, \hED>>, 3) >>])
  \o << Row(<<"IX", "IX@">>, <<\h32, \hED>>, 3), Row(<<"IY", "IY@">>, <<\h33, \hED>>, 3),
        Row(<<"IX", "IY@">>, <<\h54, \hED>>, 3), Row(<<"IY", "IX@">>, <<\h55, \hED>>, 3) >>
mlt_instrs == [i \in 1..4 |-> Row(<<Reg16[i]>>, <<\h4C + (i - 1) * 16, \hED>>, 2)]
neg_instrs == Plain(<<\h44, \hED>>)
nop_instrs == Plain(<<\h00>>)
out_instrs ==
  LET Both(r) == << Row(<<"(C)", r>>, <<\h41 + Code(r) * 8, \hED>>, 2),
                    Row(<<"(BC)", r>>, <<\h41 + Code(r) * 8, \hED>>, 2) >>
  IN Both("A") \o << Row(<<"(&)", "A">>, <<\hD3>>, 2) >>
       \o FlattenSeq([i \in 1..6 |-> Both(Reg8[i])])
pea_instrs == << Row(<<"IX@">>, <<\h65, \hED>>, 3), Row(<<"IY@">>, <<\h66, \hED>>, 3) >>
pop_instrs == StackRows(\hC1)
res_instrs == BitRows(\h80)
ret_instrs == ReturnRows
rla_instrs == Plain(<<\h17>>)
rlc_instrs == RotateRows(\h00)
rld_instrs == Plain(<<\h6F, \hED>>)
rra_instrs == Plain(<<\h1F>>)
rrc_instrs == RotateRows(\h08)
rrd_instrs == Plain(<<\h67, \hED>>)
rst_instrs == RestartRows
sbc_instrs == CarryRows(\h98, \h42)
scf_instrs == Plain(<<\h37>>)
set_instrs == BitRows(\hC0)
sla_instrs == RotateRows(\h20)
slp_instrs == Plain(<<\h76, \hED>>)
sra_instrs == RotateRows(\h28)
srl_instrs == RotateRows(\h38)
sub_instrs == AluRows(\h90, Reg8)
tst_instrs ==
     [i \in 1..8 |-> Row(<<"A", Reg8[i]>>, <<\h04 + (i - 1) * 8, \hED>>, 2)]
  \o << Row(<<"A", "&">>, <<\h64, \hED>>, 3) >>
xor_instrs == AluRows(\hA8, Reg8FromA)
call_instrs == CallRows
cpdr_instrs == Plain(<<\hB9, \hED>>)
cpir_instrs == Plain(<<\hB1, \hED>>)
djnz_instrs == <<Row(<<"%">>, <<\h10>>, 2)>>
halt_instrs == Plain(<<\h76>>)
ind2_instrs == Plain(<<\h8C, \hED>>)
indm_instrs == Plain(<<\h8A, \hED>>)
indr_instrs == Plain(<<\hBA, \hED>>)
ini2_instrs == Plain(<<\h84, \hED>>)
inim_instrs == Plain(<<\h82, \hED>>)
inir_instrs == Plain(<<\hB2, \hED>>)
lddr_instrs == Plain(<<\hB8, \hED>>)
ldir_instrs == Plain(<<\hB0, \hED>>)
otdm_instrs == Plain(<<\h8B, \hED>>)
otdr_instrs == Plain(<<\hBB, \hED>>)
otim_instrs == Plain(<<\h83, \hED>>)
otir_instrs == Plain(<<\hB3, \hED>>)
out0_instrs ==
     [i \in 1..6 |-> Row(<<"(&)", Reg8[i]>>, <<\h01 + (i - 1) * 8, \hED>>, 3)]
  \o << Row(<<"(&)", "A">>, <<\h39, \hED>>, 3) >>
outd_instrs == Plain(<<\hAB, \hED>>)
outi_instrs == Plain(<<\hA3, \hED>>)
push_instrs == StackRows(\hC5)
reti_instrs == Plain(<<\h4D, \hED>>)
retn_instrs == Plain(<<\h45, \hED>>)
rlca_instrs == Plain(<<\h07>>)
rrca_instrs == Plain(<<\h0F>>)
ind2r_instrs == Plain(<<\h9C, \hED>>)
indmr_instrs == Plain(<<\h9A, \hED>>)
indrx_instrs == Plain(<<\hCA, \hED>>)
ini2r_instrs == Plain(<<\h94, \hED>>)
inimr_instrs == Plain(<<\h92, \hED>>)
inirx_instrs == Plain(<<\hC2, \hED>>)
otd2r_instrs == Plain(<<\hBC, \hED>>)
otdmr_instrs == Plain(<<\h9B, \hED>>)
otdrx_instrs == Plain(<<\hCB, \hED>>)
oti2r_instrs == Plain(<<\hB4, \hED>>)
otimr_instrs == Plain(<<\h93, \hED>>)
otirx_instrs == Plain(<<\hC3, \hED>>)
outd2_instrs == Plain(<<\hAC, \hED>>)
outi2_instrs == Plain(<<\hA4, \hED>>)
rsmix_instrs == Plain(<<\h7E, \hED>>)
stmix_instrs == Plain(<<\h7D, \hED>>)
tstio_instrs == << Row(<<"&">>, <<\h74, \hED>>, 3) >>

\* Mnemonics with their rows, in the order of the list.
opcode_list_ez80 ==
  << <<"LD", ld_instrs>>, <<"CALL", call_instrs>>, <<"RET", ret_instrs>>, <<"JR", jr_instrs>>,
     <<"JP", jp_instrs>>, <<"ADD", add_instrs>>, <<"INC", inc_instrs>>, <<"POP", pop_instrs>>,
     <<"PUSH", push_instrs>>, <<"DEC", dec_instrs>>, <<"CP", cp_instrs>>, <<"OR", or_instrs>>,
     <<"EX", ex_instrs>>, <<"XOR", xor_instrs>>, <<"EXX", exx_instrs>>, <<"SUB", sub_instrs>>,
     <<"AND", and_instrs>>, <<"SET", set_instrs>>, <<"BIT", bit_instrs>>,
     <<"DJNZ", djnz_instrs>>, <<"RRA", rra_instrs>>, <<"RR", rr_instrs>>,
     <<"SRA", sra_instrs>>, <<"RES", res_instrs>>, <<"LDIR", ldir_instrs>>,
     <<"RLA", rla_instrs>>, <<"OUT", out_instrs>>, <<"SBC", sbc_instrs>>,
     <<"CPL", cpl_instrs>>, <<"RL", rl_instrs>>, <<"NEG", neg_instrs>>, <<"RLC", rlc_instrs>>,
     <<"SRL", srl_instrs>>, <<"RST", rst_instrs>>, <<"IN", in_instrs>>,
     <<"LDDR", lddr_instrs>>, <<"EI", ei_instrs>>, <<"IM", im_instrs>>, <<"ADC", adc_instrs>>,
     <<"DAA", daa_instrs>>, <<"DI", di_instrs>>, <<"NOP", nop_instrs>>,
     <<"RLCA", rlca_instrs>>, <<"SLA", sla_instrs>>, <<"LDI", ldi_instrs>>,
     <<"CCF", ccf_instrs>>, <<"SCF", scf_instrs>>, <<"RRC", rrc_instrs>>,
     <<"HALT", halt_instrs>>, <<"RLD", rld_instrs>>, <<"TST", tst_instrs>>,
     <<"CPD", cpd_instrs>>, <<"CPDR", cpdr_instrs>>, <<"CPI", cpi_instrs>>,
     <<"CPIR", cpir_instrs>>, <<"IND", ind_instrs>>, <<"INDR", indr_instrs>>,
     <<"INI", ini_instrs>>, <<"INIR", inir_instrs>>, <<"LDD", ldd_instrs>>,
     <<"OTDR", otdr_instrs>>, <<"OTIR", otir_instrs>>, <<"OUTD", outd_instrs>>,
     <<"OUTI", outi_instrs>>, <<"RETI", reti_instrs>>, <<"RETN", retn_instrs>>,
     <<"RRCA", rrca_instrs>>, <<"RRD", rrd_instrs>>, <<"LEA", lea_instrs>>,
     <<"PEA", pea_instrs>>, <<"MLT", mlt_instrs>>, <<"IND2", ind2_instrs>>,
     <<"INDM", indm_instrs>>, <<"INI2", ini2_instrs>>, <<"INIM", inim_instrs>>,
     <<"OTDM", otdm_instrs>>, <<"OTIM", otim_instrs>>, <<"OUT0", out0_instrs>>,
     <<"IN0", in0_instrs>>, <<"SLP", slp_instrs>>, <<"IND2R", ind2r_instrs>>,
     <<"INDMR", indmr_instrs>>, <<"INDRX", indrx_instrs>>, <<"INI2R", ini2r_instrs>>,
     <<"INIMR", inimr_instrs>>, <<"INIRX", inirx_instrs>>, <<"OTD2R", otd2r_instrs>>,
     <<"OTDMR", otdmr_instrs>>, <<"OTDRX", otdrx_instrs>>, <<"OTI2R", oti2r_instrs>>,
     <<"OTIMR", otimr_instrs>>, <<"OTIRX", otirx_instrs>>, <<"OUTD2", outd2_instrs>>,
     <<"OUTI2", outi2_instrs>>, <<"RSMIX", rsmix_instrs>>, <<"STMIX", stmix_instrs>>,
     <<"TSTIO", tstio_instrs>> >>
=============================================================================
