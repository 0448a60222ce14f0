---------------------------- MODULE ProcVars ----------------------------
(* clb/include/clb/proc_var.h: the variables of a CLB.                        *)
EXTENDS Integers, TLC

\* A variable's id, what its constants are (indices of its array, values, bits), and which.
V(id) == [id |-> id, use |-> "none", constants |-> {}]
Indexed(id, s) == [id |-> id, use |-> "index", constants |-> s]
Valued(id, s) == [id |-> id, use |-> "value", constants |-> s]
Bits(id, s) == [id |-> id, use |-> "bits", constants |-> s]

SystemReadings ==
  "SYS_RUN_NUMBER" :> V(\h00127000) @@ "SYS_DOM_ID" :> V(\h00224000)
  @@ "SYS_TIME_SLICE_DUR" :> V(\h00327000) @@ "SYS_HW_DATE_REV" :> V(\h00624000)
  @@ "SYS_SW_DATE_REV" :> V(\h00724000) @@ "SYS_STMACH_PKTSIZE" :> V(\h00417000)
  @@ "SYS_PWR_MEAS" :> Indexed(\h00514011, 0 .. 17) @@ "SYS_SYS_TEMP_HUM" :> Indexed(\h00854005, 0 .. 5)
SystemMasks ==
  "SYS_SYS_DISABLE" :> Bits(\h00906000, {1, 2, 4, 8, 16}) @@ "SYS_SYS_RUN_ENA" :> Bits(\h00a07000, {1, 2, 4, 8})
  @@ "SYS_IMGTYPE" :> Valued(\h00b04000, 1 .. 4) @@ "SYS_SYS_FAIL" :> Bits(\h00c06000, {1, 2, 8, 16})
\* The id of the slow control port copied from the line above it, its index too.
NetworkingCopied ==
  "NET_IPMUX_PORTS" :> V(\h10217003) @@ "NET_IPMUX_SRV_MAC" :> V(\h10417002)
  @@ "NET_SC_PORT" :> Valued(\h10417000, {\hDACE}) @@ "NET_IPMUX_SRV_IP" :> V(\h10327000)
Networking ==
  "NET_WR_MU" :> V(\h10834000) @@ "NET_CABLE_RTT" :> V(\h10c74000) @@ "NET_IPMUX_SRV_IP" :> V(\h10327000)
  @@ "NET_WR_DELTA" :> Indexed(\h10664003, 0 .. 3) @@ "NET_MAC_ADDR" :> V(\h10114002)
  @@ "NET_IPMUX_PORTS" :> V(\h10217003) @@ "NET_IPMUX_SRV_MAC" :> V(\h10417002)
  @@ "NET_SC_PORT" :> Valued(\h10517000, {\hDACE}) @@ "NET_WR_BITSLIDE" :> V(\h10714000)
  @@ "NET_RX_INPUT_POWER" :> V(\h10d14000)
WhiteRabbit ==
  "NET_WR_ST_PTP" :> Valued(\h10944000, -1 .. 8) @@ "NET_WR_ST_GEN" :> Valued(\h10a44000, -1 .. 22)
  @@ "NET_WR_ST_SERV" :> Valued(\h10b44000, {-1} \cup 1 .. 6)
Optics ==
  "OPT_PMT_ID" :> V(\h2052401e) @@ "OPT_HR_VETO_THRES" :> V(\h20627000) @@ "OPT_CHAN_ENABLE" :> V(\h20827000)
  @@ "OPT_HR_VETO_ENA_CH" :> V(\h20e27000) @@ "OPT_MULHIT_ENA_CH" :> V(\h20f27000)
  @@ "OPT_NANO_LENGTH" :> V(\h20917000) @@ "OPT_NANO_PERIOD" :> V(\h20a17000) @@ "OPT_NANO_VOLT" :> V(\h20b17000)
  @@ "OPT_NANO_DELAY" :> V(\h20c17000) @@ "OPT_NANO_PCOUNT" :> V(\h20d17000) @@ "OPT_CHAN_CONFIG" :> V(\h2010701e)
  @@ "OPT_CHAN_STATUS" :> V(\h2020401e) @@ "OPT_PMT_HIGHVOLT" :> V(\h2030701e)
  @@ "OPT_PMT_THRESHOLD" :> V(\h2040701e) @@ "OPT_NANO_ENABLE" :> V(\h20787000)
Instrumentation ==
  "INS_AHRS_PITCH" :> V(\h301a4000) @@ "INS_AHRS_ROLL" :> V(\h302a4000) @@ "INS_AHRS_YAW" :> V(\h303a4000)
  @@ "INS_AHRS_A" :> V(\h304a4002) @@ "INS_AHRS_G" :> V(\h305a4002) @@ "INS_AHRS_H" :> V(\h306a4002)
  @@ "INS_TEMP" :> V(\h30754000) @@ "INS_HUMID" :> V(\h30814000) @@ "INS_AHRS_ENABLE" :> V(\h30987000)
  @@ "INS_AHRS_VALID" :> V(\h30a84000) @@ "INS_COMPASS_VERSION" :> Valued(\h30b04000, {0, 255})
Acoustics ==
  "ACS_ACOU_ENABLE" :> V(\h40187000) @@ "ACS_ACOU_CHAN" :> Valued(\h40207000, 0 .. 2)
  @@ "ACS_ACOU_RES" :> Valued(\h40307000, 0 .. 2)
BaseModule ==
  "BSE_EDFA_SETP_RD" :> V(\h50264000) @@ "BSE_EDFA_IOP" :> V(\h50364000) @@ "BSE_EDFA_OOP" :> V(\h50464000)
  @@ "BSE_EDFA_PUMPDC" :> V(\h50564000) @@ "BSE_EDFA_TEMP" :> V(\h50664000) @@ "BSE_EDFA_SETP_WR" :> V(\h508a2000)
  @@ "BSE_BPS_IBACK" :> V(\h50914000) @@ "BSE_BPS_I12" :> V(\h50a14000) @@ "BSE_BPS_V375" :> V(\h50b14000)
  @@ "BSE_BPS_I375" :> V(\h50c14000) @@ "BSE_BPS_V5" :> V(\h50d14000) @@ "BSE_BPS_BREAKER" :> V(\h50e14000)
  @@ "BSE_BPS_ALARM" :> V(\h50f14000) @@ "BSE_ACDC_VOLT" :> V(\h51014000) @@ "BSE_ACDC_CUR" :> V(\h51114000)
  @@ "BSE_EDFA_EMI" :> V(\h50186000) @@ "BSE_EDFA_SN" :> V(\h5070401f) @@ "BSE_ACDC_TEMP" :> V(\h51244000)
  @@ "BSE_INST_FAIL" :> Bits(\h51306000, {1, 2, 4})

ProcVar == SystemReadings @@ SystemMasks @@ Networking @@ WhiteRabbit @@ Optics
           @@ Instrumentation @@ Acoustics @@ BaseModule
========================================================================
