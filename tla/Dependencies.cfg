SPECIFICATION Spec
CONSTANTS
    Setups <- MCSetups
    Limits <- MCLimits
    MaxLocked <- MCMaxLocked
    MaxExpanded <- MCMaxExpanded
    MaxRequires <- MCMaxRequires
    Injected <- MCInjected
INVARIANTS
    CompatibleIsSelected
    SuccessIsInstallable
    NegativeIsReal
    CompleteIsInspected
    AssessmentsAreFresh
    ExhaustedStaysExhausted
CHECK_DEADLOCK FALSE
PROPERTY ReportEnds
