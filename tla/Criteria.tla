------------------------------ MODULE Criteria ------------------------------
(***************************************************************************)
(* The pass/fail criteria of the tests: launcher/criteria.py (the table)   *)
(* and e2e/tests/criterias/*.py (what each criterion reads and compares).  *)
(*                                                                         *)
(* A criterion is a fold over what the stubs of its layer report and an    *)
(* operator that compares the result with the value of the test.  What a   *)
(* stub reports for it is a number, or a sequence or a function of numbers *)
(* for the folds that say so.  A result is a fraction <<n, d>>, which      *)
(* stands for n / d, or a sequence of numbers.                             *)
(***************************************************************************)
EXTENDS Integers, SequencesExt

-----------------------------------------------------------------------------
(* The criteria of each component.                                         *)

Each(names, fold, op) == [name : names, fold : {fold}, op : {op}]

DuRates  == Each({"dl_bitrate_gt", "ul_bitrate_gt"}, "mean", "gt")

DuFaults ==
    Each({"nof_ko_dl_le", "nof_ko_ul_le", "max_late_dl_harqs_le", "max_late_ul_harqs_le",
          "nof_error_indications_le", "nof_pucch_f0f1_invalid_harqs_le",
          "nof_pucch_f2f3f4_invalid_harqs_le", "nof_pucch_f2f3f4_invalid_csis_le",
          "nof_pusch_invalid_csis_le", "nof_pusch_invalid_harqs_le"}, "sum", "le")
    \cup Each({"nof_conres_issues_eq", "nof_ues_at_stop_eq"}, "sum", "eq")

DuMobility ==
    Each({"nof_reestablishments_request_le"}, "sum", "le")
    \cup Each({"nof_reestablishments_request_ge", "nof_reestablishments_complete_ge",
             "nof_handovers_ge"}, "sum", "ge")
    \cup Each({"nof_reestablishments_request_eq", "nof_reestablishments_complete_eq",
             "nof_handovers_eq"}, "sum", "eq")

\* Read from the answer of Stop, which the driver keeps for the calls after the first.
Logs == Each({"errors_le", "warnings_le"}, "sum", "le")

DuConfiguration ==
    Each({"prach_configuration_index_eq", "total_prach_preambles_eq",
          "two_step_prachs_detected_eq", "transform_precoder_eq", "c_srs_eq", "t312_eq",
          "drx_long_cycle_eq"}, "sum", "eq")

DuPaging ==
    Each({"nof_paging_eq", "nof_rrc_suspend_eq", "nof_rrc_resume_complete_eq"}, "sum", "eq")
    \cup Each({"nof_paging_ge", "nof_rrc_suspend_ge", "nof_rrc_resume_complete_ge"}, "sum", "ge")

DuSibs ==
    Each({"nof_sib1_ge", "nof_sib2_ge", "nof_sib3_ge", "nof_sib4_ge", "nof_sib6_ge",
          "nof_sib7_ge", "nof_sib8_ge", "nof_sib16_ge"}, "sum", "ge")
    \cup Each({"nof_sib6_le", "nof_sib7_le", "nof_sib8_le"}, "sum", "le")
    \cup Each({"sib1_has_rach_prioritization_slice_eq"}, "any", "eq")

DuRadio ==
    Each({"dl_max_mcs_ge", "ul_max_mcs_ge"}, "max", "ge")
    \cup Each({"dl_avg_ri_ge", "ul_avg_ri_ge"}, "mean", "ge")

\* Lists: the first stub only, one entry for each UE or each bearer.
DuPerUe ==
    Each({"dl_ue_mid10_bitrate", "ul_ue_mid10_bitrate"}, "ues", "all_gt")
    \cup Each({"drb_dl_bitrate_gt", "drb_ul_bitrate_gt"}, "drbs", "all_gt")
    \cup Each({"pdsch_prbs_mid10_per_tdd_slot_mean", "pusch_prbs_mid10_per_tdd_slot_mean"}, "slots", "ge")
    \cup Each({"ue_bsr_max_le"}, "ues", "all_lt")

DuSetups ==
    Each({"nof_cg_type1_eq", "nof_cg_type2_eq", "nof_cs_rnti_eq", "nof_rlm_ssb_resources_eq",
          "nof_rlm_csi_rs_resources_eq"}, "sum", "eq")
    \cup Each({"nof_rlm_ssb_resources_ge", "nof_rlm_csi_rs_resources_ge",
             "nof_meas_gap_setups_ge", "nof_meas_gap_releases_ge"}, "sum", "ge")
    \cup Each({"max_differential_koffset_ge"}, "largest", "ge")
    \cup Each({"nof_differential_koffset_updates_ge"}, "entries", "ge")

CuCpPositioning ==
    Each({"nof_e_cid_measurement_initiation_request_eq",
          "nof_e_cid_measurement_initiation_response_eq",
          "trp_information_request_eq", "trp_information_response_eq"}, "sum", "eq")
    \cup Each({"nof_e_cid_measurement_report_geq", "nof_e_cid_measurement_result_with_aoa_geq",
             "trp_information_response_ge", "nof_nr_dl_tdoa_measurements_ge"}, "sum", "ge")

CuCpInterfaces ==
    Each({"nof_xn_handover_request_acknowledge_geq", "nof_sn_status_transfer_geq",
          "nof_xn_retrieve_ue_context_request_ge", "nof_xn_retrieve_ue_context_response_ge",
          "nof_rohc_profile_1_configured_ge", "nof_rohc_profile_2_configured_ge",
          "nof_5qi_1_drb_configured_ge", "nof_5qi_2_drb_configured_ge",
          "nof_5qi_5_drb_configured_ge", "nof_write_replace_warning_request_ge",
          "nof_write_replace_warning_response_ge"}, "sum", "ge")
    \cup Each({"nof_rohc_profile_1_configured_eq", "nof_5qi_1_drb_configured_eq"}, "sum", "eq")

\* Counters per AMF pointer: all of them, or the ones the test asks for.
CuCpPerAmf ==
    Each({"nof_registration_accept_eq", "nof_service_accept_eq"}, "all_amfs", "eq")
    \cup Each({"nof_registration_accept_per_amf_ge", "nof_service_accept_per_amf_ge"}, "amfs", "all_ge")

CuCpNgap ==
    Each({"nof_service_reject_eq", "nof_ng_reset_eq", "nof_ngap_error_indication_eq",
          "nof_duplicate_ran_ue_ngap_id_eq"}, "sum", "eq")
    \cup Each({"nof_mt_access_rrc_connection_establishments_ge"}, "sum", "ge")

FiveGc ==
    Each({"nof_pdu_session_establishment_accept_eq", "nof_nas_service_accept_eq",
          "nof_nas_deregistration_accept_eq", "nof_ng_paging_eq",
          "nof_pdu_session_modification_command_reject_eq", "nof_ims_nas_registered_ue_eq",
          "nof_lpp_error_eq", "nof_lpp_abort_eq"}, "sum", "eq")
    \cup Each({"nof_pdu_session_establishment_accept_ge", "nof_ng_paging_ge",
             "nof_pdu_session_modification_complete_ge", "nof_lpp_provide_assistance_data_ge"}, "sum", "ge")

Ues ==
    Each({"nof_ko_dl_le", "nof_ko_ul_le", "warnings_le"}, "sum", "le")
    \cup Each({"dl_retx_ratio_gt"}, "ratio", "gt")
    \cup Each({"nof_handovers_eq", "nof_pdu_session_establishment_accept_eq", "nof_prach_sent_eq"}, "sum", "eq")
    \cup Each({"nof_handovers_ge", "nof_etws_msg_received_ge", "nof_cmas_msg_received_ge"}, "sum", "ge")

Ric ==
    Each({"nof_connected_agents_ge", "nof_connected_xapps_ge", "nof_subscription_reqs_ge",
          "nof_ric_indication_ge", "nof_control_reqs_ge"}, "sum", "ge")
    \cup Each({"nof_unanswered_subscriptions_eq", "nof_unanswered_controls_eq"}, "unanswered", "eq")

Viavi ==
    Each({"nof_ko_dl_le", "nof_ko_ul_le"}, "sum", "le")
    \cup Each({"warnings_le"}, "sum", "lt")
    \cup Each({"procedure_table_eq"}, "sum", "eq")

CriteriaOf == [
    ue    |-> Ues,
    cu_cp |-> Logs \cup CuCpPositioning \cup CuCpInterfaces \cup CuCpPerAmf \cup CuCpNgap,
    cu_up |-> Logs,
    du    |-> DuRates \cup DuFaults \cup DuMobility \cup Logs \cup DuConfiguration \cup DuPaging
              \cup DuSibs \cup DuRadio \cup DuPerUe \cup DuSetups,
    core  |-> Logs \cup FiveGc,
    ric   |-> Ric,
    viavi |-> Viavi]

-----------------------------------------------------------------------------
(* Results: rs holds what each stub of the array reports.                  *)

Total(rs) == FoldSeq(LAMBDA r, sum : r + sum, 0, rs)
Largest(rs) == FoldSeq(LAMBDA r, m : IF r > m THEN r ELSE m, 0, rs)
AtKey(f, k) == IF k \in DOMAIN f THEN f[k] ELSE 0
PerKey(rs, k) == Total([i \in DOMAIN rs |-> AtKey(rs[i], k)])
AllKeys(f) == Total([k \in 1..Len(SetToSeq(DOMAIN f)) |-> f[SetToSeq(DOMAIN f)[k]]])

\* A number: callback() of the criteria that compare with one.
Number(fold, rs) ==
    CASE fold = "sum"        -> <<Total(rs), 1>>
      [] fold = "mean"       -> <<Total(rs), Len(rs)>>
      [] fold = "max"        -> <<Largest(rs), 1>>
      [] fold = "any"        -> <<IF \E i \in DOMAIN rs : rs[i] # 0 THEN 1 ELSE 0, 1>>
      [] fold = "slots"      -> <<(20 * Total(rs[1]) + Len(rs[1])) \div (2 * Len(rs[1])), 10>>
      [] fold = "largest"    -> <<Largest(FlattenSeq(rs)), 1>>
      [] fold = "entries"    -> <<Len(FlattenSeq(rs)), 1>>
      [] fold = "all_amfs"   -> <<Total([i \in DOMAIN rs |-> AllKeys(rs[i])]), 1>>
      [] fold = "unanswered" -> <<Total([i \in DOMAIN rs |-> rs[i].reqs - rs[i].reps]), 1>>
      [] fold = "ratio"      ->
            LET rx == Total([i \in DOMAIN rs |-> rs[i].rx]) IN
            IF rx = 0 THEN <<0, 1>> ELSE <<Total([i \in DOMAIN rs |-> rs[i].ko]), rx>>

\* Variant for the mutation runs: only the bearers that the capture saw.
SeenBearers(fold, rs, input) ==
    LET items == SelectSeq(input, LAMBDA item : item.id \in DOMAIN rs[1])
    IN [i \in DOMAIN items |-> AtKey(rs[1], items[i].id)]

\* A list: of the UEs in the report, or of the bearers and AMFs that the test
\* asks for (a missing one counts as 0).
List(fold, rs, input) ==
    CASE fold = "ues"  -> rs[1]
      [] fold = "drbs" -> [i \in DOMAIN input |-> AtKey(rs[1], input[i].id)]
      [] fold = "amfs" -> [i \in DOMAIN input |-> PerKey(rs, input[i].id)]

\* _all_gt, _all_ge, _all_lt: zip goes as far as the shorter list.
Zipped(a, b) == 1..(IF Len(a) < Len(b) THEN Len(a) ELSE Len(b))

Compares(op, a, b) ==
    CASE op = "gt" -> a > b
      [] op = "ge" -> a >= b
      [] op = "le" -> a <= b
      [] op = "lt" -> a < b
      [] op = "eq" -> a = b
      [] op = "all_gt" -> \A i \in Zipped(a, b) : a[i] > b[i]
      [] op = "all_ge" -> \A i \in Zipped(a, b) : a[i] >= b[i]
      [] op = "all_lt" -> \A i \in Zipped(a, b) : a[i] < b[i]

IsList(c) == c.fold \in {"ues", "drbs", "amfs"}

\* `expected': the values of a list, one number for all UEs of ue_bsr_max_le.
Expected(c, rs, input) ==
    IF c.op = "all_lt" THEN [i \in DOMAIN rs[1] |-> input]
    ELSE [i \in DOMAIN input |-> input[i].value]

\* is_ok of a criterion whose stubs report rs, against the value of the test.
IsOk(c, rs, input) ==
    IF IsList(c) THEN Compares(c.op, List(c.fold, rs, input), Expected(c, rs, input))
    ELSE LET r == Number(c.fold, rs) IN Compares(c.op, r[1], input * r[2])

-----------------------------------------------------------------------------
(* The table: one row for each layer of each fixture of the test, in the   *)
(* order the fixtures are set up.  Fixtures of one kind share one array of *)
(* stubs, which the rows of a gNB or of a CU hold together.                *)

LayersOf == [ue |-> <<"ue">>, gnb |-> <<"cu_cp", "cu_up", "du">>, cu |-> <<"cu_cp", "cu_up">>,
             cu_cp |-> <<"cu_cp">>, cu_up |-> <<"cu_up">>, du |-> <<"du">>,
             fivegc |-> <<"core">>, ric |-> <<"ric">>, viavi |-> <<"viavi">>]

Rows(kinds) ==
    FlattenSeq([i \in DOMAIN kinds |->
        [j \in DOMAIN LayersOf[kinds[i]] |-> [layer |-> LayersOf[kinds[i]][j], kind |-> kinds[i]]]])

Has(row, name) == \E c \in CriteriaOf[row.layer] : c.name = name

\* CuCriteria and GnbCriteria: the first row of their layers with the name.
AliasLayers == [cu |-> {"cu_cp", "cu_up"}, gnb |-> {"cu_cp", "cu_up", "du"}]
AliasRows(kinds, layer, name) ==
    SelectSeq(Rows(kinds), LAMBDA row : row.layer \in AliasLayers[layer] /\ Has(row, name))

\* Variant for the mutation runs: seen_stubs is not kept.
EveryRow(kinds, name) == SelectSeq(Rows(kinds), LAMBDA row : Has(row, name))

\* AllCriteria: every row with the name, once for each array of stubs.
AllRows(kinds, name) ==
    LET rows == SelectSeq(Rows(kinds), LAMBDA row : Has(row, name))
    IN SelectSeq(rows, LAMBDA row :
            ~\E i \in DOMAIN rows : rows[i].kind = row.kind /\ rows[i] # row
                /\ \A j \in DOMAIN rows : rows[j] = row => i < j)
=============================================================================
