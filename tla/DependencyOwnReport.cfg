SPECIFICATION Spec
CONSTANTS
    Setups <- TinySetups
    Limits <- MCLimits
    MaxLocked <- MCMaxLocked
    MaxExpanded <- MCMaxExpanded
    MaxRequires <- MCMaxRequires
    Injected <- MCInjected
INVARIANT OwnReportAccepted
CHECK_DEADLOCK FALSE
