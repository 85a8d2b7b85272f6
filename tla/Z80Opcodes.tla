----------------------------- MODULE Z80Opcodes -------------------------------
(***************************************************************************)
(* The opcode tables of the Z80: opcodes.cpp.  One definition per table,   *)
(* in the order of the file; the rows stand in the order they are tried in. *)
(***************************************************************************)
EXTENDS OpcodeRows

cp_instrs == AluRows(\hB8, Reg8)
di_instrs == Plain(<<\hF3>>)
ei_instrs == Plain(<<\hFB>>)
ex_instrs == ExchangeRows
im_instrs == InterruptModeRows
in_instrs ==
     << Row(<<"A", "(C)">>, <<\h78, \hED>>, 2), Row(<<"A", "(&)">>, <<\hDB>>, 2) >>
  \o [i \in 1..6 |-> Row(<<Reg8[i], "(C)">>, <<\h40 + (i - 1) * 8, \hED>>, 2)]
  \o << Row(<<"F", "(C)">>, <<\h70, \hED>>, 2) >>
jp_instrs == JumpRows
jr_instrs == RelativeJumpRows
\* The table of ld, in the parts it consists of.
ld_special == << Row(<<"SP", "HL">>, <<\hF9>>, 1), Row(<<"A", "I">>, <<\h57, \hED>>, 2),
                 Row(<<"A", "R">>, <<\h5F, \hED>>, 2) >>
ld_index == LdIndexRows
ld_register == LdRegisterRows
ld_memory == LdMemoryRows
ld_word == LdStackPointerRows \o LdWordRows
ld_instrs == ld_special \o ld_index \o ld_register \o ld_memory \o ld_word
or_instrs == AluRows(\hB0, Reg8)
rl_instrs == RotateRowsZ80(\h10)
rr_instrs == RotateRowsZ80(\h18)
adc_instrs == CarryRows(\h88, \h4A)
add_instrs == AddRows
and_instrs == AluRows(\hA0, Reg8)
bit_instrs == BitRows(\h40)
ccf_instrs == Plain(<<\h3F>>)
cpd_instrs == Plain(<<\hA9, \hED>>)
cpi_instrs == Plain(<<\hA1, \hED>>)
cpl_instrs == Plain(<<\h2F>>)
daa_instrs == Plain(<<\h27>>)
dec_instrs == DecRows
exx_instrs == Plain(<<\hD9>>)
inc_instrs == IncRows
ind_instrs == Plain(<<\hAA, \hED>>)
ini_instrs == Plain(<<\hA2, \hED>>)
ldd_instrs == Plain(<<\hA8, \hED>>)
ldi_instrs == Plain(<<\hA0, \hED>>)
neg_instrs == Plain(<<\h44, \hED>>)
nop_instrs == Plain(<<\h00>>)
out_instrs ==
     << Row(<<"(C)", "A">>, <<\h79, \hED>>, 2), Row(<<"(&)", "A">>, <<\hD3>>, 2) >>
  \o [i \in 1..6 |-> Row(<<"(C)", Reg8[i]>>, <<\h41 + (i - 1) * 8, \hED>>, 2)]
  \o << Row(<<"(C)", "0">>, <<\h71, \hED>>, 2) >>
pop_instrs == StackRows(\hC1)
res_instrs == BitRowsZ80(\h80)
ret_instrs == ReturnRows
rla_instrs == Plain(<<\h17>>)
rlc_instrs == RotateRowsZ80(\h00)
rld_instrs == Plain(<<\h6F, \hED>>)
rra_instrs == Plain(<<\h1F>>)
rrc_instrs == RotateRowsZ80(\h08)
rrd_instrs == Plain(<<\h67, \hED>>)
rst_instrs == RestartRows
sbc_instrs == CarryRows(\h98, \h42)
scf_instrs == Plain(<<\h37>>)
set_instrs == BitRowsZ80(\hC0)
sl1_instrs == RotateRowsZ80(\h30)
sla_instrs == RotateRowsZ80(\h20)
sll_instrs == RotateRowsZ80(\h30)
sra_instrs == RotateRowsZ80(\h28)
srl_instrs == RotateRowsZ80(\h38)
sub_instrs == AluRows(\h90, Reg8)
xor_instrs == AluRows(\hA8, Reg8FromA)
call_instrs == CallRows
cpdr_instrs == Plain(<<\hB9, \hED>>)
cpir_instrs == Plain(<<\hB1, \hED>>)
djnz_instrs == <<Row(<<"%">>, <<\h10>>, 2)>>
halt_instrs == Plain(<<\h76>>)
indr_instrs == Plain(<<\hBA, \hED>>)
inir_instrs == Plain(<<\hB2, \hED>>)
lddr_instrs == Plain(<<\hB8, \hED>>)
ldir_instrs == Plain(<<\hB0, \hED>>)
otdr_instrs == Plain(<<\hBB, \hED>>)
otir_instrs == Plain(<<\hB3, \hED>>)
outd_instrs == Plain(<<\hAB, \hED>>)
outi_instrs == Plain(<<\hA3, \hED>>)
push_instrs == StackRows(\hC5)
reti_instrs == Plain(<<\h4D, \hED>>)
retn_instrs == Plain(<<\h45, \hED>>)
rlca_instrs == Plain(<<\h07>>)
rrca_instrs == Plain(<<\h0F>>)

\* Mnemonics with their rows, in the order of the list.
opcode_list ==
  << <<"LD", ld_instrs>>, <<"CALL", call_instrs>>, <<"RET", ret_instrs>>, <<"JR", jr_instrs>>,
     <<"JP", jp_instrs>>, <<"ADD", add_instrs>>, <<"INC", inc_instrs>>, <<"POP", pop_instrs>>,
     <<"PUSH", push_instrs>>, <<"DEC", dec_instrs>>, <<"CP", cp_instrs>>, <<"OR", or_instrs>>,
     <<"EX", ex_instrs>>, <<"XOR", xor_instrs>>, <<"EXX", exx_instrs>>, <<"SUB", sub_instrs>>,
     <<"AND", and_instrs>>, <<"SET", set_instrs>>, <<"BIT", bit_instrs>>,
     <<"DJNZ", djnz_instrs>>, <<"RRA", rra_instrs>>, <<"RR", rr_instrs>>,
     <<"SRA", sra_instrs>>, <<"RES", res_instrs>>, <<"LDIR", ldir_instrs>>,
     <<"RLA", rla_instrs>>, <<"OUT", out_instrs>>, <<"SBC", sbc_instrs>>,
     <<"CPL", cpl_instrs>>, <<"RL", rl_instrs>>, <<"NEG", neg_instrs>>, <<"RLC", rlc_instrs>>,
     <<"SRL", srl_instrs>>, <<"RST", rst_instrs>>, <<"IN", in_instrs>>,
     <<"LDDR", lddr_instrs>>, <<"EI", ei_instrs>>, <<"IM", im_instrs>>, <<"ADC", adc_instrs>>,
     <<"DAA", daa_instrs>>, <<"DI", di_instrs>>, <<"NOP", nop_instrs>>,
     <<"RLCA", rlca_instrs>>, <<"SLA", sla_instrs>>, <<"LDI", ldi_instrs>>,
     <<"CCF", ccf_instrs>>, <<"SCF", scf_instrs>>, <<"RRC", rrc_instrs>>,
     <<"HALT", halt_instrs>>, <<"RLD", rld_instrs>>, <<"SL1", sl1_instrs>>,
     <<"CPD", cpd_instrs>>, <<"CPDR", cpdr_instrs>>, <<"CPI", cpi_instrs>>,
     <<"CPIR", cpir_instrs>>, <<"IND", ind_instrs>>, <<"INDR", indr_instrs>>,
     <<"INI", ini_instrs>>, <<"INIR", inir_instrs>>, <<"LDD", ldd_instrs>>,
     <<"OTDR", otdr_instrs>>, <<"OTIR", otir_instrs>>, <<"OUTD", outd_instrs>>,
     <<"OUTI", outi_instrs>>, <<"RETI", reti_instrs>>, <<"RETN", retn_instrs>>,
     <<"RRCA", rrca_instrs>>, <<"RRD", rrd_instrs>>, <<"SLL", sll_instrs>> >>
=============================================================================
